---- MODULE Spec2Model ----
(***************************************************************************)
(* A model of the Smalltalk-to-Smalltix transpiler (st2bash.py): lexer,    *)
(* recursive-descent parser, AST re-serializer and Bash code generator.    *)
(*                                                                         *)
(* Python strings are modelled as sequences of one-character strings, so   *)
(* that the lexer, str.split, str.replace and str.startswith operate on    *)
(* characters as the code does.  Python indices are 0-based; At and Slice  *)
(* keep the code's index arithmetic.                                       *)
(***************************************************************************)
EXTENDS Integers, Sequences, FiniteSets, TLC

----------------------------------------------------------------------------
(* Characters and strings *)

\* (C19, mutation) the dot taken for a digit
C19_DigitsAndDot == {"0", "1", "2", "3", "4", "5", "6", "7", "8", "9", "."}

Digit == {"0", "1", "2", "3", "4", "5", "6", "7", "8", "9"}
Lower == {"a", "b", "c", "d", "e", "f", "g", "h", "i", "j", "k", "l", "m",
          "n", "o", "p", "q", "r", "s", "t", "u", "v", "w", "x", "y", "z"}
Upper == {"A", "B", "C", "D", "E", "F", "G", "H", "I", "J", "K", "L", "M",
          "N", "O", "P", "Q", "R", "S", "T", "U", "V", "W", "X", "Y", "Z"}
Space == {" ", "\t", "\n", "\r"}
Alpha == Lower \cup Upper
Alnum == Alpha \cup Digit
IdentChar == Alnum \cup {"_"}
SymbolChar == Alnum \cup {"_", ":"}
BinaryChars == {"+", "-", "*", "/", "\\", "<", ">", "=", "@", "%", "|", "&",
                "?", ",", "~"}

Min(a, b) == IF a < b THEN a ELSE b

\* source[i] and source[i:j] with Python's 0-based indices and clamping
At(s, i) == s[i + 1]
Slice(s, i, j) == SubSeq(s, i + 1, Min(j, Len(s)))

\* the least member of a non-empty set of numbers
Least(S) == CHOOSE k \in S : \A m \in S : k <= m

\* while j < len(s) and s[j] in C: j += 1
\* (the first index k >= j with k = len(s) or s[k] not in C)
ScanWhile(s, j, C) ==
    IF j >= Len(s) THEN j
    ELSE Least({k \in j..Len(s) : k = Len(s) \/ At(s, k) \notin C})

\* while j < len(s) and s[j] != ch: j += 1
ScanUntil(s, j, ch) ==
    IF j >= Len(s) THEN j
    ELSE Least({k \in j..Len(s) : k = Len(s) \/ At(s, k) = ch})

\* the string-literal scan: '' is an escaped quote, a single ' ends it
RECURSIVE ScanString(_, _)
ScanString(s, j) ==
    IF j < Len(s)
    THEN IF At(s, j) = "'"
         THEN IF j + 1 < Len(s) /\ At(s, j + 1) = "'"
              THEN ScanString(s, j + 2)
              ELSE j
         ELSE ScanString(s, j + 1)
    ELSE j

----------------------------------------------------------------------------
(* Tokens *)

Token(type, value, pos) == [type |-> type, value |-> value, pos |-> pos]

\* One round of the while loop of tokenize at index i: the tokens appended
\* (at most one) and the next index, or the lexical error.
LexStep(s, i) ==
    LET c == At(s, i)
        one(type) == [err |-> FALSE, toks |-> <<Token(type, <<c>>, i)>>, next |-> i + 1]
    IN
    IF c \in Space THEN [err |-> FALSE, toks |-> <<>>, next |-> i + 1]
    ELSE IF c = "\"" THEN
        [err |-> FALSE, toks |-> <<>>, next |-> ScanUntil(s, i + 1, "\"") + 1]
    ELSE IF c = "^" THEN one("CARET")
    ELSE IF Slice(s, i, i + 2) = <<":", "=">> THEN
        [err |-> FALSE, toks |-> <<Token("ASSIGN", <<":", "=">>, i)>>, next |-> i + 2]
    ELSE IF c = "." THEN one("DOT")
    ELSE IF c = ";" THEN one("SEMI")
    ELSE IF c = "(" THEN one("LPAREN")
    ELSE IF c = ")" THEN
        [err |-> FALSE, toks |-> <<Token("RPAREN", <<")">>, 0)>>, next |-> i + 1]
    ELSE IF c = "[" THEN one("LBRACKET")
    ELSE IF c = "]" THEN one("RBRACKET")
    ELSE IF c = "|" THEN one("BAR")
    ELSE IF c \in Digit \/ (c = "-" /\ i + 1 < Len(s) /\ At(s, i + 1) \in Digit) THEN
        LET j0 == IF c = "-" THEN i + 1 ELSE i
            j1 == ScanWhile(s, j0, Digit)
        IN IF j1 < Len(s) /\ At(s, j1) = "." /\ j1 + 1 < Len(s) /\ At(s, j1 + 1) \in Digit
           THEN LET j2 == ScanWhile(s, j1 + 1, Digit)
                IN [err |-> FALSE, toks |-> <<Token("FLOAT", Slice(s, i, j2), i)>>, next |-> j2]
           ELSE [err |-> FALSE, toks |-> <<Token("INT", Slice(s, i, j1), i)>>, next |-> j1]
    ELSE IF c = "'" THEN
        LET j == ScanString(s, i + 1)
        IN [err |-> FALSE, toks |-> <<Token("STRING", Slice(s, i + 1, j), i)>>, next |-> j + 1]
    ELSE IF c = "#" THEN
        IF i + 1 < Len(s) /\ At(s, i + 1) = "'"
        THEN LET j == ScanUntil(s, i + 2, "'")
             IN [err |-> FALSE, toks |-> <<Token("SYMBOL", Slice(s, i + 2, j), i)>>, next |-> j + 1]
        ELSE LET j == ScanWhile(s, i + 1, SymbolChar)
             IN [err |-> FALSE, toks |-> <<Token("SYMBOL", Slice(s, i + 1, j), i)>>, next |-> j]
    ELSE IF c \in Alpha \/ c = "_" THEN
        LET j == ScanWhile(s, i, IdentChar)
            name == Slice(s, i, j)
        IN IF j < Len(s) /\ At(s, j) = ":"
           THEN [err |-> FALSE, toks |-> <<Token("KEYWORD", name \o <<":">>, i)>>, next |-> j + 1]
           ELSE [err |-> FALSE, toks |-> <<Token("NAME", name, i)>>, next |-> j]
    ELSE IF c = ":" /\ i + 1 < Len(s) /\ At(s, i + 1) \in Alpha THEN
        LET j == ScanWhile(s, i + 1, IdentChar)
        IN [err |-> FALSE, toks |-> <<Token("BLOCKPARAM", Slice(s, i + 1, j), i)>>, next |-> j]
    ELSE IF c \in BinaryChars THEN
        LET j == ScanWhile(s, i, BinaryChars)
        IN [err |-> FALSE, toks |-> <<Token("BINARY", Slice(s, i, j), i)>>, next |-> j]
    ELSE [err |-> TRUE, toks |-> <<>>, next |-> i]

\* The while loop of tokenize from index i on: the tokens it appends.  A
\* run of whitespace (one iteration per character in the code) is passed at
\* once.
RECURSIVE LexLoop(_, _)
LexLoop(s, i) ==
    LET k == ScanWhile(s, i, Space) IN
    IF k < Len(s)
    THEN LET r == LexStep(s, k)
             rest == LexLoop(s, r.next)
         IN IF r.err THEN [err |-> TRUE, tokens |-> <<>>, at |-> k]
            ELSE IF rest.err THEN rest
            ELSE [err |-> FALSE, tokens |-> r.toks \o rest.tokens, at |-> rest.at]
    ELSE [err |-> FALSE, tokens |-> <<Token("EOF", <<>>, Len(s))>>, at |-> Len(s)]

\* tokenize(source): the token list, or err for the SyntaxError it raises
tokenize(s) == LexLoop(s, 0)

----------------------------------------------------------------------------
(* AST nodes (the dataclasses; the field "node" is the class) *)

LiteralNode(type, value) == [node |-> "LiteralNode", type |-> type, value |-> value]
VariableNode(name) == [node |-> "VariableNode", name |-> name]
AssignNode(name, value) == [node |-> "AssignNode", name |-> name, value |-> value]
SendNode(receiver, selector, args) ==
    [node |-> "SendNode", receiver |-> receiver, selector |-> selector, args |-> args]
CascadeNode(receiver, messages) ==
    [node |-> "CascadeNode", receiver |-> receiver, messages |-> messages]
ReturnNode(value) == [node |-> "ReturnNode", value |-> value]
BlockNode(params, temps, body, body_start, body_end) ==
    [node |-> "BlockNode", params |-> params, temps |-> temps, body |-> body,
     body_start |-> body_start, body_end |-> body_end]
MethodNode(selector, params, temps, body) ==
    [node |-> "MethodNode", selector |-> selector, params |-> params,
     temps |-> temps, body |-> body]

----------------------------------------------------------------------------
(* Parser.  Every parse function takes the token list and self.pos and     *)
(* returns its value with the new self.pos, or err with the exception.     *)

\* self.tokens[self.pos]; past the list Python raises IndexError
current(toks, pos) ==
    IF pos < Len(toks) THEN toks[pos + 1] ELSE Token("<IndexError>", <<>>, 0)

peek(toks, pos, offset) ==
    IF pos + offset < Len(toks) THEN toks[pos + offset + 1] ELSE Token("EOF", <<>>, 0)

\* the exception raised on a token that fits no alternative
Raise(toks, pos) ==
    [err |-> TRUE,
     kind |-> IF pos < Len(toks) THEN "SyntaxError" ELSE "IndexError",
     pos |-> pos]

\* (C18, mutation) the token taken whatever its type
C18_ExpectAny(toks, pos, type) ==
    [err |-> FALSE, tok |-> current(toks, pos), pos |-> pos + 1]

expect(toks, pos, type) ==
    IF current(toks, pos).type # type
    THEN Raise(toks, pos)
    ELSE [err |-> FALSE, tok |-> current(toks, pos), pos |-> pos + 1]

\* while self.current().type == 'KEYWORD': selector += ...; params.append(expect NAME)
RECURSIVE PatternLoop(_, _, _, _)
PatternLoop(toks, pos, selector, params) ==
    IF current(toks, pos).type = "KEYWORD"
    THEN LET e == expect(toks, pos + 1, "NAME")
         IN IF e.err THEN e
            ELSE PatternLoop(toks, e.pos, selector \o current(toks, pos).value,
                             Append(params, e.tok.value))
    ELSE [err |-> FALSE, selector |-> selector, params |-> params, pos |-> pos]

parse_message_pattern(toks, pos) ==
    LET tok == current(toks, pos) IN
    IF tok.type = "NAME"
    THEN [err |-> FALSE, selector |-> tok.value, params |-> <<>>, pos |-> pos + 1]
    ELSE IF tok.type = "BINARY"
    THEN LET e == expect(toks, pos + 1, "NAME")
         IN IF e.err THEN e
            ELSE [err |-> FALSE, selector |-> tok.value, params |-> <<e.tok.value>>,
                  pos |-> e.pos]
    ELSE IF tok.type = "KEYWORD"
    THEN PatternLoop(toks, pos, <<>>, <<>>)
    ELSE Raise(toks, pos)

\* while self.current().type == 'NAME': temps.append(self.advance().value)
RECURSIVE NameLoop(_, _, _)
NameLoop(toks, pos, names) ==
    IF current(toks, pos).type = "NAME"
    THEN NameLoop(toks, pos + 1, Append(names, current(toks, pos).value))
    ELSE [names |-> names, pos |-> pos]

parse_temporaries(toks, pos) ==
    IF current(toks, pos).type = "BAR"
    THEN LET n == NameLoop(toks, pos + 1, <<>>)
             e == expect(toks, n.pos, "BAR")
         IN IF e.err THEN e
            ELSE [err |-> FALSE, temps |-> n.names, pos |-> e.pos]
    ELSE [err |-> FALSE, temps |-> <<>>, pos |-> pos]

\* self.<method>() on the parser of the tokens toks with self.pos = pos: the
\* parse methods call one another through it
RECURSIVE Parser(_, _, _)

RECURSIVE KeywordLoop(_, _, _, _), BinaryLoop(_, _, _), CascadeLoop(_, _, _),
          BlockBodyLoop(_, _, _), StatementsLoop(_, _, _)

\* while self.current().type not in ('EOF', 'RBRACKET'): ... else: break
StatementsLoop(toks, pos, stmts) ==
    IF current(toks, pos).type \notin {"EOF", "RBRACKET"}
    THEN LET r == Parser("parse_statement", toks, pos)
         IN IF r.err THEN r
            ELSE IF current(toks, r.pos).type = "DOT"
            THEN StatementsLoop(toks, r.pos + 1, Append(stmts, r.node))
            ELSE [err |-> FALSE, stmts |-> Append(stmts, r.node), pos |-> r.pos]
    ELSE [err |-> FALSE, stmts |-> stmts, pos |-> pos]

parse_statements(toks, pos) == StatementsLoop(toks, pos, <<>>)

parse_statement(toks, pos) ==
    IF current(toks, pos).type = "CARET"
    THEN LET r == Parser("parse_expression", toks, pos + 1)
         IN IF r.err THEN r
            ELSE [err |-> FALSE, node |-> ReturnNode(r.node), pos |-> r.pos]
    ELSE Parser("parse_expression", toks, pos)

parse_expression(toks, pos) ==
    IF current(toks, pos).type = "NAME" /\ peek(toks, pos, 1).type = "ASSIGN"
    THEN LET r == Parser("parse_expression", toks, pos + 2)
         IN IF r.err THEN r
            ELSE [err |-> FALSE, node |-> AssignNode(current(toks, pos).value, r.node),
                  pos |-> r.pos]
    ELSE Parser("parse_cascade", toks, pos)

\* while self.current().type == 'SEMI': advance; messages.append(parse_cascade_message())
CascadeLoop(toks, pos, messages) ==
    IF current(toks, pos).type = "SEMI"
    THEN LET m == Parser("parse_cascade_message", toks, pos + 1)
         IN IF m.err THEN m
            ELSE CascadeLoop(toks, m.pos, Append(messages, <<m.selector, m.args>>))
    ELSE [err |-> FALSE, messages |-> messages, pos |-> pos]

parse_cascade(toks, pos) ==
    LET r == Parser("parse_keyword_send", toks, pos) IN
    IF r.err THEN r
    ELSE IF current(toks, r.pos).type = "SEMI"
    THEN IF r.node.node # "SendNode"
         THEN [err |-> TRUE, kind |-> "SyntaxError", pos |-> r.pos]
         ELSE LET c == CascadeLoop(toks, r.pos, <<<<r.node.selector, r.node.args>>>>)
              IN IF c.err THEN c
                 ELSE [err |-> FALSE, node |-> CascadeNode(r.node.receiver, c.messages),
                       pos |-> c.pos]
    ELSE r

\* (C8, mutation) a keyword part read without its argument
C8_KeywordLoopBare(toks, pos, selector, args) ==
    IF current(toks, pos).type = "KEYWORD"
    THEN KeywordLoop(toks, pos + 1, selector \o current(toks, pos).value, args)
    ELSE [err |-> FALSE, selector |-> selector, args |-> args, pos |-> pos]

\* while self.current().type == 'KEYWORD': selector += advance().value;
\*     args.append(self.parse_binary_send())
KeywordLoop(toks, pos, selector, args) ==
    IF current(toks, pos).type = "KEYWORD"
    THEN LET a == Parser("parse_binary_send", toks, pos + 1)
         IN IF a.err THEN a
            ELSE KeywordLoop(toks, a.pos, selector \o current(toks, pos).value,
                             Append(args, a.node))
    ELSE [err |-> FALSE, selector |-> selector, args |-> args, pos |-> pos]

parse_cascade_message(toks, pos) ==
    LET tok == current(toks, pos) IN
    IF tok.type = "NAME"
    THEN [err |-> FALSE, selector |-> tok.value, args |-> <<>>, pos |-> pos + 1]
    ELSE IF tok.type = "BINARY"
    THEN LET a == Parser("parse_unary_send", toks, pos + 1)
         IN IF a.err THEN a
            ELSE [err |-> FALSE, selector |-> tok.value, args |-> <<a.node>>, pos |-> a.pos]
    ELSE IF tok.type = "KEYWORD"
    THEN KeywordLoop(toks, pos, <<>>, <<>>)
    ELSE Raise(toks, pos)

parse_keyword_send(toks, pos) ==
    LET r == Parser("parse_binary_send", toks, pos) IN
    IF r.err THEN r
    ELSE IF current(toks, r.pos).type = "KEYWORD"
    THEN LET k == KeywordLoop(toks, r.pos, <<>>, <<>>)
         IN IF k.err THEN k
            ELSE [err |-> FALSE, node |-> SendNode(r.node, k.selector, k.args), pos |-> k.pos]
    ELSE r

\* while self.current().type == 'BINARY': ... receiver = SendNode(receiver, selector, [arg])
BinaryLoop(toks, pos, receiver) ==
    IF current(toks, pos).type = "BINARY"
    THEN LET a == Parser("parse_unary_send", toks, pos + 1)
         IN IF a.err THEN a
            ELSE BinaryLoop(toks, a.pos,
                            SendNode(receiver, current(toks, pos).value, <<a.node>>))
    ELSE [err |-> FALSE, node |-> receiver, pos |-> pos]

parse_binary_send(toks, pos) ==
    LET r == Parser("parse_unary_send", toks, pos) IN
    IF r.err THEN r ELSE BinaryLoop(toks, r.pos, r.node)

\* while self.current().type == 'NAME' and self.peek(1).type != 'ASSIGN'
RECURSIVE UnaryLoop(_, _, _)
UnaryLoop(toks, pos, receiver) ==
    IF current(toks, pos).type = "NAME" /\ peek(toks, pos, 1).type # "ASSIGN"
    THEN UnaryLoop(toks, pos + 1, SendNode(receiver, current(toks, pos).value, <<>>))
    ELSE [err |-> FALSE, node |-> receiver, pos |-> pos]

parse_unary_send(toks, pos) ==
    LET r == Parser("parse_primary", toks, pos) IN
    IF r.err THEN r ELSE UnaryLoop(toks, r.pos, r.node)

parse_primary(toks, pos) ==
    LET tok == current(toks, pos) IN
    IF tok.type = "INT"
    THEN [err |-> FALSE, node |-> LiteralNode("int", tok.value), pos |-> pos + 1]
    ELSE IF tok.type = "FLOAT"
    THEN [err |-> FALSE, node |-> LiteralNode("float", tok.value), pos |-> pos + 1]
    ELSE IF tok.type = "STRING"
    THEN [err |-> FALSE, node |-> LiteralNode("string", tok.value), pos |-> pos + 1]
    ELSE IF tok.type = "SYMBOL"
    THEN [err |-> FALSE, node |-> LiteralNode("symbol", tok.value), pos |-> pos + 1]
    ELSE IF tok.type = "NAME"
    THEN [err |-> FALSE, node |-> VariableNode(tok.value), pos |-> pos + 1]
    ELSE IF tok.type = "LPAREN"
    THEN LET r == Parser("parse_expression", toks, pos + 1)
         IN IF r.err THEN r
            ELSE LET e == expect(toks, r.pos, "RPAREN")
                 IN IF e.err THEN e
                    ELSE [err |-> FALSE, node |-> r.node, pos |-> e.pos]
    ELSE IF tok.type = "LBRACKET"
    THEN Parser("parse_block", toks, pos)
    ELSE Raise(toks, pos)

\* while self.current().type == 'BLOCKPARAM': params.append(self.advance().value)
RECURSIVE BlockParamLoop(_, _, _)
BlockParamLoop(toks, pos, params) ==
    IF current(toks, pos).type = "BLOCKPARAM"
    THEN BlockParamLoop(toks, pos + 1, Append(params, current(toks, pos).value))
    ELSE [names |-> params, pos |-> pos]

\* while self.current().type != 'RBRACKET': stmt = parse_statement(); if DOT: advance
BlockBodyLoop(toks, pos, body) ==
    IF current(toks, pos).type # "RBRACKET"
    THEN LET r == Parser("parse_statement", toks, pos)
         IN IF r.err THEN r
            ELSE BlockBodyLoop(toks,
                               IF current(toks, r.pos).type = "DOT" THEN r.pos + 1 ELSE r.pos,
                               Append(body, r.node))
    ELSE [err |-> FALSE, stmts |-> body, pos |-> pos]

parse_block(toks, pos) ==
    LET e0 == expect(toks, pos, "LBRACKET") IN
    IF e0.err THEN e0
    ELSE
    LET p == BlockParamLoop(toks, e0.pos, <<>>)
        e1 == IF p.names # <<>> THEN expect(toks, p.pos, "BAR")
              ELSE [err |-> FALSE, pos |-> p.pos]
    IN
    IF e1.err THEN e1
    ELSE
    LET t == parse_temporaries(toks, e1.pos) IN
    IF t.err THEN t
    ELSE
    LET body_start == current(toks, t.pos).pos
        b == BlockBodyLoop(toks, t.pos, <<>>)
    IN
    IF b.err THEN b
    ELSE [err |-> FALSE,
          node |-> BlockNode(p.names, t.temps, b.stmts, body_start,
                             current(toks, b.pos).pos),
          pos |-> b.pos + 1]

Parser(method, toks, pos) ==
    CASE method = "parse_statement" -> parse_statement(toks, pos)
      [] method = "parse_expression" -> parse_expression(toks, pos)
      [] method = "parse_cascade" -> parse_cascade(toks, pos)
      [] method = "parse_cascade_message" -> parse_cascade_message(toks, pos)
      [] method = "parse_keyword_send" -> parse_keyword_send(toks, pos)
      [] method = "parse_binary_send" -> parse_binary_send(toks, pos)
      [] method = "parse_unary_send" -> parse_unary_send(toks, pos)
      [] method = "parse_primary" -> parse_primary(toks, pos)
      [] method = "parse_block" -> parse_block(toks, pos)

parse_method(toks) ==
    LET m == parse_message_pattern(toks, 0) IN
    IF m.err THEN m
    ELSE
    LET t == parse_temporaries(toks, m.pos) IN
    IF t.err THEN t
    ELSE
    LET b == parse_statements(toks, t.pos) IN
    IF b.err THEN b
    ELSE [err |-> FALSE, node |-> MethodNode(m.selector, m.params, t.temps, b.stmts),
          pos |-> b.pos]

----------------------------------------------------------------------------
(* String helpers of the code generator *)

\* sep.join(parts)
RECURSIVE JoinFrom(_, _, _)
JoinFrom(parts, i, sep) ==
    IF i > Len(parts) THEN <<>>
    ELSE IF i = Len(parts) THEN parts[i]
    ELSE parts[i] \o sep \o JoinFrom(parts, i + 1, sep)

Join(parts, sep) == JoinFrom(parts, 1, sep)

\* s.split(ch): the pieces between the occurrences of ch (always at least one)
Split(s, ch) ==
    LET seps == {i \in 1..Len(s) : s[i] = ch}
        \* the separator (or 0, the start) that k - 1 separators precede
        start(k) == IF k = 1 THEN 0
                    ELSE CHOOSE i \in seps : Cardinality({j \in seps : j < i}) = k - 2
        stop(i) == Least({j \in seps : j > i} \cup {Len(s) + 1})
    IN [k \in 1..Cardinality(seps) + 1 |-> SubSeq(s, start(k) + 1, stop(start(k)) - 1)]

\* s.replace(a, b) for single characters
Replace(s, a, b) == [i \in 1..Len(s) |-> IF s[i] = a THEN b ELSE s[i]]

\* s.endswith(ch), s.startswith(prefix)
EndsWith(s, ch) == Len(s) > 0 /\ s[Len(s)] = ch
StartsWith(s, prefix) == Len(s) >= Len(prefix) /\ SubSeq(s, 1, Len(prefix)) = prefix

\* lst[:-1]
DropLast(lst) == SubSeq(lst, 1, Len(lst) - 1)

\* zip(a, b): pairs up to the shorter length
Zip(a, b) == [i \in 1..Min(Len(a), Len(b)) |-> <<a[i], b[i]>>]

\* the concatenation of a sequence of sequences
RECURSIVE FlattenFrom(_, _)
FlattenFrom(ss, i) == IF i > Len(ss) THEN <<>> ELSE ss[i] \o FlattenFrom(ss, i + 1)

Flatten(ss) == FlattenFrom(ss, 1)

\* str(n) for n >= 0
DigitChar(d) == <<"0", "1", "2", "3", "4", "5", "6", "7", "8", "9">>[d + 1]
RECURSIVE Str(_)
Str(n) == IF n < 10 THEN <<DigitChar(n)>> ELSE Str(n \div 10) \o <<DigitChar(n % 10)>>

----------------------------------------------------------------------------
(* CodeGenerator.node_to_source: AST back to Smalltalk source text *)

is_keyword_or_binary(node) ==
    IF node.node = "SendNode" THEN Len(node.args) > 0 ELSE FALSE

RECURSIVE node_to_source(_)

\* " {part}: {arg}" for each zip(parts, args), as a list of "part: arg" texts
KeywordPairs(selector, args) ==
    LET z == Zip(DropLast(Split(selector, ":")), args)
    IN [i \in 1..Len(z) |-> z[i][1] \o <<":", " ">> \o node_to_source(z[i][2])]

\* the words one cascade message contributes to parts
CascadeMessageParts(i, sel, args) ==
    (IF i > 1 THEN <<<<";">>>> ELSE <<>>) \o
    (IF args = <<>> THEN <<sel>>
     ELSE IF Len(args) = 1 /\ ~EndsWith(sel, ":")
     THEN <<sel \o <<" ">> \o node_to_source(args[1])>>
     ELSE KeywordPairs(sel, args))

\* the list parts of the BlockNode branch, before " ".join(parts)
BlockParts(node) ==
    LET head == <<<<"[">>>> \o
                (IF node.params # <<>>
                 THEN [i \in 1..Len(node.params) |-> <<":">> \o node.params[i]] \o <<<<"|">>>>
                 ELSE <<>>) \o
                (IF node.temps # <<>>
                 THEN <<<<"|">>>> \o node.temps \o <<<<"|">>>>
                 ELSE <<>>)
        stmts == Flatten([i \in 1..Len(node.body) |->
                            <<node_to_source(node.body[i]), <<".">>>>])
        all == head \o stmts
    IN (IF all[Len(all)] = <<".">> THEN DropLast(all) ELSE all) \o <<<<"]">>>>

node_to_source(node) ==
    IF node.node = "LiteralNode" THEN
        IF node.type \in {"int", "float"} THEN node.value
        ELSE IF node.type = "string" THEN <<"'">> \o node.value \o <<"'">>
        ELSE IF node.type = "symbol" THEN <<"#">> \o node.value
        ELSE <<"?", "?", "?">>
    ELSE IF node.node = "VariableNode" THEN node.name
    ELSE IF node.node = "AssignNode" THEN
        node.name \o <<" ", ":", "=", " ">> \o node_to_source(node.value)
    ELSE IF node.node = "SendNode" THEN
        LET r0 == node_to_source(node.receiver)
            recv == IF node.receiver.node \in {"SendNode", "AssignNode"}
                       /\ is_keyword_or_binary(node.receiver)
                    THEN <<"(">> \o r0 \o <<")">>
                    ELSE r0
        IN IF node.args = <<>>
           THEN recv \o <<" ">> \o node.selector
           ELSE IF Len(node.args) = 1 /\ ~EndsWith(node.selector, ":")
           THEN recv \o <<" ">> \o node.selector \o <<" ">> \o node_to_source(node.args[1])
           ELSE Join(<<recv>> \o KeywordPairs(node.selector, node.args), <<" ">>)
    ELSE IF node.node = "CascadeNode" THEN
        Join(<<node_to_source(node.receiver)>> \o
             Flatten([i \in 1..Len(node.messages) |->
                        CascadeMessageParts(i, node.messages[i][1], node.messages[i][2])]),
             <<" ">>)
    ELSE IF node.node = "ReturnNode" THEN
        <<"^", " ">> \o node_to_source(node.value)
    ELSE IF node.node = "BlockNode" THEN
        Join(BlockParts(node), <<" ">>)
    ELSE <<"?", "?", "?">>

----------------------------------------------------------------------------
(* Generated script lines.  A line is the f-string that produces it with   *)
(* its holes; a hole filled by var_ref(v) or by "${v}" is a reference      *)
(* [dollar, name]: the text name, preceded by "$" when dollar holds.       *)

SELF == <<"s", "e", "l", "f">>
TRUE_ == <<"t", "r", "u", "e">>
FALSE_ == <<"f", "a", "l", "s", "e">>
NIL == <<"n", "i", "l">>
TMP == <<"t", "m", "p">>
INT_ == <<"i", "n", "t", "/">>
FLOAT_ == <<"f", "l", "o", "a", "t", "/">>
BLOCK_ == <<"~", "b", "l", "o", "c", "k">>
NONE == <<"N", "o", "n", "e">>

Dollar(name) == [dollar |-> TRUE, name |-> name]
Plain(name) == [dollar |-> FALSE, name |-> name]

\* "# {text}" and the bare "#"
LComment(text) == [op |-> "comment", text |-> text]
LHash == [op |-> "hash"]
\* "{target}=${index}"
LBind(target, index) == [op |-> "bind", target |-> target, index |-> index]
\* "echo {ref}"
LEcho(ref) == [op |-> "echo", ref |-> ref]
\* "cat $self/{name}"
LCat(name) == [op |-> "cat", name |-> name]
\* "./send {recv} {selector} {args}", captured as "{target}=$(...)" unless target = <<>>
LSend(target, recv, selector, args) ==
    [op |-> "send", target |-> target, recv |-> recv, selector |-> selector, args |-> args]
\* "{target}={ref}"
LSet(target, ref) == [op |-> "set", target |-> target, ref |-> ref]
\* "{target}=$(cat $self/{name})"
LCatInto(target, name) == [op |-> "catinto", target |-> target, name |-> name]
\* "echo {ref} > $self/{name}"
LWrite(ref, name) == [op |-> "write", ref |-> ref, name |-> name]
\* "blockDir=${0%/*}"
LBlockDir == [op |-> "blockdir"]

----------------------------------------------------------------------------
(* CodeGenerator.  The object is a record of its attributes; raised holds  *)
(* the exception a generate call has raised ("" for none) and message its  *)
(* text; after a raise every call returns at once, as the unwinding does.  *)
(* A Python set is the                                                     *)
(* sequence of its members in iteration order, which the interpreter's     *)
(* string-hash seed fixes: hashseed 0 and 1 give two opposite orders.      *)
(* block_trace is a history of the generate_block calls: the name, the     *)
(* local captured, the literal (by its body_start) and the attributes the  *)
(* body is generated under, of each; block_exits is a history of their     *)
(* returns: the attributes at the call and at the return; statement_trace  *)
(* is a history of the generate_statement calls: the statement, is_final   *)
(* and the lines the call appended.                                        *)

RECURSIVE Dedupe(_, _)
Dedupe(list, seen) ==
    IF list = <<>> THEN <<>>
    ELSE IF list[1] \in seen THEN Dedupe(Tail(list), seen)
    ELSE <<list[1]>> \o Dedupe(Tail(list), seen \cup {list[1]})

Reverse(list) == [i \in 1..Len(list) |-> list[Len(list) + 1 - i]]

Range(list) == {list[i] : i \in 1..Len(list)}

\* set(list): the members in the order a for loop over the set visits them
SetOf(list, hashseed) ==
    IF hashseed = 0 THEN Dedupe(list, {}) ELSE Reverse(Dedupe(list, {}))

\* name in aset
In(name, aset) == name \in Range(aset)

NewCodeGenerator(source, hashseed) ==
    [source |-> source, hashseed |-> hashseed, tmp_counter |-> 0, lines |-> <<>>,
     temps |-> <<>>, params |-> <<>>, block_counter |-> 0,
     extracted_blocks |-> <<>>, method_selector |-> <<>>,
     block_path_stack |-> <<>>, raised |-> "", message |-> "",
     block_trace |-> <<>>, block_exits |-> <<>>, statement_trace |-> <<>>,
     fresh_trace |-> <<>>]

Emit(g, line) == [g EXCEPT !.lines = Append(@, line)]
\* (C11, mutation) the literal passed over without a raise
C11_RaiseSkipped(g, message) == g

\* raise NotImplementedError(message)
RaiseNotImplemented(g, message) ==
    [g EXCEPT !.raised = "NotImplementedError", !.message = message]

\* new_tmp: the object with the counter advanced, and the name
\* (fresh_trace keeps each name handed out, with the script it is for
\* and the names bound in that script)
new_tmp(g) ==
    LET name == TMP \o Str(g.tmp_counter + 1)
    IN [g |-> [g EXCEPT !.tmp_counter = @ + 1,
                        !.fresh_trace = Append(@, [name |-> name,
                                                   script |-> g.block_path_stack,
                                                   temps |-> g.temps,
                                                   params |-> g.params])],
        name |-> name]

current_block_path(g) == Flatten(g.block_path_stack)

needs_dollar_prefix(var_name) ==
    IF StartsWith(var_name, INT_) \/ StartsWith(var_name, FLOAT_) THEN FALSE
    ELSE IF var_name \in {TRUE_, FALSE_, NIL} THEN FALSE
    ELSE IF var_name # <<>> /\ var_name[1] \in Upper THEN FALSE
    ELSE TRUE

var_ref(var_name) ==
    IF needs_dollar_prefix(var_name) THEN Dollar(var_name) ELSE Plain(var_name)

VarRefs(names) == [i \in 1..Len(names) |-> var_ref(names[i])]

\* self.<method>(...) on the generator object g: the generate methods call one
\* another through it; arg is the method's third argument, if it has one
RECURSIVE CodeGenerator(_, _, _, _)

RECURSIVE GenerateArgs(_, _, _), GenerateBody(_, _, _, _), GenCascadeFinalLoop(_, _, _),
          GenCascadeLoop(_, _, _, _), GenCascadeIntoLoop(_, _, _, _)

\* for arg in args: arg_vars.append(self.generate_expr(arg))
GenerateArgs(g, args, arg_vars) ==
    IF g.raised # "" \/ args = <<>> THEN [g |-> g, arg_vars |-> arg_vars]
    ELSE LET r == CodeGenerator("generate_expr", g, args[1], <<>>)
         IN GenerateArgs(r.g, Tail(args), Append(arg_vars, r.ref))

\* for i, stmt in enumerate(body): self.generate_statement(stmt, is_final=is_last)
\* (the iterations for the statements i..n of body)
GenerateBody(g, body, i, n) ==
    IF g.raised # "" \/ i > n THEN g
    ELSE LET r == CodeGenerator("generate_statement", g, body[i], i = Len(body))
             emitted == SubSeq(r.lines, Len(g.lines) + 1, Len(r.lines))
         IN GenerateBody([r EXCEPT !.statement_trace =
                              Append(@, [node |-> body[i], is_final |-> i = Len(body),
                                         in_block |-> g.block_path_stack # <<>>,
                                         emitted |-> emitted])],
                         body, i + 1, n)

\* the result variable generate_statement returns is used by no caller
\* (C6, mutation) every statement generated as the last one is
C6_StatementAsFinal(g, node, is_final) ==
    CodeGenerator("generate_expr_final", g,
                  IF node.node = "ReturnNode" THEN node.value ELSE node, <<>>)

\* (C15, mutation) a return captured and echoed also when it is the last
C15_StatementReturnCaptured(g, node, is_final) ==
    IF g.raised # "" THEN g
    ELSE IF node.node = "ReturnNode" THEN
        LET r == CodeGenerator("generate_expr", g, node.value, <<>>)
        IN IF r.g.raised # "" THEN r.g ELSE Emit(r.g, LEcho(Dollar(r.ref)))
    ELSE IF is_final
         THEN CodeGenerator("generate_expr_final", g, node, <<>>)
         ELSE CodeGenerator("generate_expr", g, node, <<>>).g

generate_statement(g, node, is_final) ==
    IF g.raised # "" THEN g
    ELSE IF node.node = "ReturnNode" THEN
        IF is_final
        THEN CodeGenerator("generate_expr_final", g, node.value, <<>>)
        ELSE LET r == CodeGenerator("generate_expr", g, node.value, <<>>)
             IN IF r.g.raised # "" THEN r.g ELSE Emit(r.g, LEcho(Dollar(r.ref)))
    ELSE IF is_final
         THEN CodeGenerator("generate_expr_final", g, node, <<>>)
         ELSE CodeGenerator("generate_expr", g, node, <<>>).g

generate_expr_final(g, node) ==
    IF g.raised # "" THEN g
    ELSE IF node.node = "LiteralNode" THEN
        IF node.type = "int" THEN Emit(g, LEcho(Plain(INT_ \o node.value)))
        ELSE IF node.type = "float" THEN Emit(g, LEcho(Plain(FLOAT_ \o node.value)))
        ELSE RaiseNotImplemented(g, node.type \o " literals not yet supported")
    ELSE IF node.node = "VariableNode" THEN
        IF node.name = SELF THEN Emit(g, LEcho(Dollar(SELF)))
        ELSE IF node.name \in {TRUE_, FALSE_, NIL} THEN Emit(g, LEcho(Plain(node.name)))
        ELSE IF In(node.name, g.temps) \/ In(node.name, g.params)
        THEN Emit(g, LEcho(Dollar(node.name)))
        ELSE Emit(g, LCat(node.name))
    ELSE IF node.node = "SendNode" THEN CodeGenerator("generate_send_final", g, node, <<>>)
    ELSE IF node.node = "CascadeNode" THEN CodeGenerator("generate_cascade_final", g, node, <<>>)
    ELSE IF node.node = "AssignNode" THEN
        LET r == CodeGenerator("generate_expr", g, node, <<>>)
        IN IF r.g.raised # "" THEN r.g ELSE Emit(r.g, LEcho(var_ref(r.ref)))
    ELSE IF node.node = "BlockNode" THEN
        LET r == CodeGenerator("generate_block", g, node, <<>>)
        IN IF r.g.raised # "" THEN r.g ELSE Emit(r.g, LEcho(var_ref(r.ref)))
    ELSE RaiseNotImplemented(g, "Unknown node type")

generate_send_final(g, node) ==
    LET r == CodeGenerator("generate_expr", g, node.receiver, <<>>)
        a == GenerateArgs(r.g, node.args, <<>>)
    IN IF a.g.raised # "" THEN a.g
       ELSE Emit(a.g, LSend(<<>>, var_ref(r.ref), Replace(node.selector, ":", "-"),
                            VarRefs(a.arg_vars)))

\* generate_cascade_final: for i, (selector, args) in enumerate(node.messages)
GenCascadeFinalLoop(g, recv_var, messages) ==
    IF g.raised # "" \/ messages = <<>> THEN g
    ELSE
    LET is_last_msg == Len(messages) = 1
        a == GenerateArgs(g, messages[1][2], <<>>)
        selector == Replace(messages[1][1], ":", "-")
        t == new_tmp(a.g)
    IN
    IF a.g.raised # "" THEN a.g
    ELSE IF is_last_msg
    THEN Emit(a.g, LSend(<<>>, var_ref(recv_var), selector, VarRefs(a.arg_vars)))
    ELSE GenCascadeFinalLoop(Emit(t.g, LSend(t.name, var_ref(recv_var), selector,
                                             VarRefs(a.arg_vars))),
                             recv_var, Tail(messages))

\* generate_cascade: for selector, args in node.messages, with last_result
GenCascadeLoop(g, recv_var, messages, last_result) ==
    IF g.raised # "" \/ messages = <<>> THEN [g |-> g, ref |-> last_result]
    ELSE
    LET a == GenerateArgs(g, messages[1][2], <<>>)
        selector == Replace(messages[1][1], ":", "-")
        t == new_tmp(a.g)
    IN
    IF a.g.raised # "" THEN [g |-> a.g, ref |-> last_result]
    ELSE GenCascadeLoop(Emit(t.g, LSend(t.name, var_ref(recv_var), selector,
                                        VarRefs(a.arg_vars))),
                        recv_var, Tail(messages), t.name)

\* generate_expr_into, CascadeNode: the last message's result goes into target_var
GenCascadeIntoLoop(g, recv_var, messages, target_var) ==
    IF g.raised # "" \/ messages = <<>> THEN g
    ELSE
    LET is_last_msg == Len(messages) = 1
        a == GenerateArgs(g, messages[1][2], <<>>)
        selector == Replace(messages[1][1], ":", "-")
        t == new_tmp(a.g)
    IN
    IF a.g.raised # "" THEN a.g
    ELSE IF is_last_msg
    THEN Emit(a.g, LSend(target_var, var_ref(recv_var), selector, VarRefs(a.arg_vars)))
    ELSE GenCascadeIntoLoop(Emit(t.g, LSend(t.name, var_ref(recv_var), selector,
                                            VarRefs(a.arg_vars))),
                            recv_var, Tail(messages), target_var)

\* (C10, mutation) the last message captured as the others are
C10_CascadeFinalCaptured(g, node) == CodeGenerator("generate_cascade", g, node, <<>>).g

generate_cascade_final(g, node) ==
    LET r == CodeGenerator("generate_expr", g, node.receiver, <<>>)
    IN GenCascadeFinalLoop(r.g, r.ref, node.messages)

generate_expr(g, node) ==
    IF g.raised # "" THEN [g |-> g, ref |-> NONE]
    ELSE IF node.node = "LiteralNode" THEN
        IF node.type = "int" THEN [g |-> g, ref |-> INT_ \o node.value]
        ELSE IF node.type = "float" THEN [g |-> g, ref |-> FLOAT_ \o node.value]
        ELSE IF node.type = "string"
        THEN [g |-> RaiseNotImplemented(g, "String literals not yet supported"),
              ref |-> NONE]
        ELSE IF node.type = "symbol"
        THEN [g |-> RaiseNotImplemented(g, "Symbol literals not yet supported"),
              ref |-> NONE]
        ELSE [g |-> g, ref |-> NONE]
    ELSE IF node.node = "VariableNode" THEN
        IF node.name \in {SELF, TRUE_, FALSE_, NIL} THEN [g |-> g, ref |-> node.name]
        ELSE IF In(node.name, g.temps) \/ In(node.name, g.params)
        THEN [g |-> g, ref |-> node.name]
        ELSE IF node.name[1] \in Upper THEN [g |-> g, ref |-> node.name]
        ELSE LET t == new_tmp(g)
             IN [g |-> Emit(t.g, LCatInto(t.name, node.name)), ref |-> t.name]
    ELSE IF node.node = "AssignNode" THEN
        IF In(node.name, g.temps) \/ In(node.name, g.params)
        THEN [g |-> CodeGenerator("generate_expr_into", g, node.value, node.name), ref |-> node.name]
        ELSE LET r == CodeGenerator("generate_expr", g, node.value, <<>>)
             IN IF r.g.raised # "" THEN r
                ELSE [g |-> Emit(r.g, LWrite(var_ref(r.ref), node.name)), ref |-> r.ref]
    ELSE IF node.node = "SendNode" THEN CodeGenerator("generate_send", g, node, <<>>)
    ELSE IF node.node = "CascadeNode" THEN CodeGenerator("generate_cascade", g, node, <<>>)
    ELSE IF node.node = "BlockNode" THEN CodeGenerator("generate_block", g, node, <<>>)
    ELSE [g |-> RaiseNotImplemented(g, "Unknown node type"), ref |-> NONE]

generate_expr_into(g, node, target_var) ==
    IF g.raised # "" THEN g
    ELSE IF node.node = "LiteralNode" THEN
        IF node.type = "int" THEN Emit(g, LSet(target_var, Plain(INT_ \o node.value)))
        ELSE IF node.type = "float"
        THEN Emit(g, LSet(target_var, Plain(FLOAT_ \o node.value)))
        ELSE RaiseNotImplemented(g, node.type \o " literals not yet supported")
    ELSE IF node.node = "VariableNode" THEN
        IF node.name = SELF THEN Emit(g, LSet(target_var, Dollar(SELF)))
        ELSE IF node.name \in {TRUE_, FALSE_, NIL}
        THEN Emit(g, LSet(target_var, Plain(node.name)))
        ELSE IF In(node.name, g.temps) \/ In(node.name, g.params)
        THEN Emit(g, LSet(target_var, Dollar(node.name)))
        ELSE IF node.name[1] \in Upper
        THEN Emit(g, LSet(target_var, Plain(node.name)))
        ELSE Emit(g, LCatInto(target_var, node.name))
    ELSE IF node.node = "SendNode" THEN
        LET r == CodeGenerator("generate_expr", g, node.receiver, <<>>)
            a == GenerateArgs(r.g, node.args, <<>>)
        IN IF a.g.raised # "" THEN a.g
           ELSE Emit(a.g, LSend(target_var, var_ref(r.ref),
                                Replace(node.selector, ":", "-"), VarRefs(a.arg_vars)))
    ELSE IF node.node = "CascadeNode" THEN
        LET r == CodeGenerator("generate_expr", g, node.receiver, <<>>)
        IN GenCascadeIntoLoop(r.g, r.ref, node.messages, target_var)
    ELSE IF node.node = "AssignNode" THEN
        LET r == CodeGenerator("generate_expr", g, node, <<>>)
        IN IF r.g.raised # "" THEN r.g ELSE Emit(r.g, LSet(target_var, Dollar(r.ref)))
    ELSE IF node.node = "BlockNode" THEN
        LET r == CodeGenerator("generate_block", g, node, <<>>)
        IN IF r.g.raised # "" THEN r.g ELSE Emit(r.g, LSet(target_var, Dollar(r.ref)))
    ELSE RaiseNotImplemented(g, "Unknown node type")

generate_send(g, node) ==
    LET r == CodeGenerator("generate_expr", g, node.receiver, <<>>)
        a == GenerateArgs(r.g, node.args, <<>>)
        t == new_tmp(a.g)
    IN IF a.g.raised # "" THEN [g |-> a.g, ref |-> NONE]
       ELSE [g |-> Emit(t.g, LSend(t.name, var_ref(r.ref),
                                   Replace(node.selector, ":", "-"), VarRefs(a.arg_vars))),
             ref |-> t.name]

generate_cascade(g, node) ==
    LET r == CodeGenerator("generate_expr", g, node.receiver, <<>>)
    IN GenCascadeLoop(r.g, r.ref, node.messages, NONE)

\* s.strip() and s.rstrip()
RECURSIVE RStrip(_)
RStrip(s) == IF s # <<>> /\ s[Len(s)] \in Space THEN RStrip(DropLast(s)) ELSE s
RECURSIVE LStrip(_)
LStrip(s) == IF s # <<>> /\ s[1] \in Space THEN LStrip(Tail(s)) ELSE s
Strip(s) == LStrip(RStrip(s))

\* "# {line}" for each line of text.split('\n')
CommentLines(text) ==
    LET ls == Split(text, "\n") IN [i \in 1..Len(ls) |-> LComment(ls[i])]

\* (C2, mutation) the loops without their membership tests
C2_CaptureLoopAll(names, captured) == captured \o names

\* captured = ['self']; for t in self.temps: ...; for p in self.params: ...
RECURSIVE CaptureLoop(_, _)
CaptureLoop(names, captured) ==
    IF names = <<>> THEN captured
    ELSE CaptureLoop(Tail(names),
                     IF names[1] # SELF /\ ~In(names[1], captured)
                     THEN Append(captured, names[1])
                     ELSE captured)

Captured(g) == CaptureLoop(g.params, CaptureLoop(g.temps, <<SELF>>))

\* (C1, mutation) the suffix without the counter
C1_BlockSuffixUnnumbered(path, counter) == path \o BLOCK_

\* block_suffix = self.current_block_path() + f"~block{self.block_counter}"
BlockSuffix(path, counter) == path \o BLOCK_ \o Str(counter)

\* "_method: c1 and: c2 ..." : the signature comment of the block script
SigLine(all_block_params) ==
    IF all_block_params = <<>> THEN <<"_", "m", "e", "t", "h", "o", "d">>
    ELSE Join([i \in 1..Len(all_block_params) |->
                 (IF i = 1 THEN <<"_", "m", "e", "t", "h", "o", "d", ":", " ">>
                  ELSE <<"a", "n", "d", ":", " ">>) \o all_block_params[i]],
              <<" ">>)

\* (C12, mutation) the block's own parameters bound before the captured names
C12_BlockHeaderOwnFirst(g, node, captured) ==
    LET all_block_params == node.params \o captured
    IN <<LComment(SigLine(all_block_params))>> \o
       CommentLines(Strip(Slice(g.source, node.body_start, node.body_end))) \o
       <<LHash>> \o
       [i \in 1..Len(all_block_params) |-> LBind(all_block_params[i], i)]

\* the head of the block script: source comments, "#", the positional bindings
BlockHeader(g, node, captured) ==
    LET all_block_params == captured \o node.params
    IN <<LComment(SigLine(all_block_params))>> \o
       CommentLines(Strip(Slice(g.source, node.body_start, node.body_end))) \o
       <<LHash>> \o
       [i \in 1..Len(all_block_params) |-> LBind(all_block_params[i], i)]

\* (C16, mutation) the one-capture construction whatever is captured
C16_BindingsSelfOnly(bindings_var, captured) ==
    <<LSend(bindings_var, Plain(<<"A", "r", "r", "a", "y">>), <<"w", "i", "t", "h", "-">>,
            <<Dollar(SELF)>>)>>

\* "1. Create bindings array with captured values"
BindingsLines(bindings_var, captured) ==
    LET num_captured == Len(captured)
        cap_refs == [i \in 1..num_captured |-> Dollar(captured[i])]
        ARRAY == Plain(<<"A", "r", "r", "a", "y">>)
        with == <<"w", "i", "t", "h", "-">>
    IN
    IF num_captured = 1
    THEN <<LSend(bindings_var, ARRAY, with, <<Dollar(SELF)>>)>>
    ELSE IF num_captured = 2
    THEN <<LSend(bindings_var, ARRAY, with \o with, cap_refs)>>
    ELSE IF num_captured = 3
    THEN <<LSend(bindings_var, ARRAY, with \o with \o with, cap_refs)>>
    ELSE IF num_captured = 4
    THEN <<LSend(bindings_var, ARRAY, with \o with \o with \o with, cap_refs)>>
    ELSE <<LSend(bindings_var, ARRAY, <<"n", "e", "w", "-">>,
                 <<Plain(INT_ \o Str(num_captured))>>)>> \o
         [i \in 1..num_captured |->
            LSend(<<"_">>, Dollar(bindings_var), <<"a", "t", "-", "p", "u", "t", "-">>,
                  <<Plain(INT_ \o Str(i)), Dollar(captured[i])>>)]

\* "2. Create BlockClosure"
ClosureLine(block_var, block_method_name, bindings_var) ==
    LSend(block_var, Plain(<<"B", "l", "o", "c", "k", "C", "l", "o", "s", "u", "r", "e">>),
          <<"f", "r", "o", "m", "C", "o", "d", "e", "-", "w", "i", "t", "h", "-">>,
          <<Dollar(<<"b", "l", "o", "c", "k", "D", "i", "r", "/">> \o block_method_name),
            Dollar(bindings_var)>>)

\* the attributes generate_block saves and restores
Frame(g) == [lines |-> g.lines, temps |-> g.temps, params |-> g.params,
             tmp_counter |-> g.tmp_counter]

\* (C14, mutation) only the line buffer put back
C14_RestoredLinesOnly(done, g) == [done EXCEPT !.lines = g.lines]

\* "Restore state": the attributes saved from g put back after the body
Restored(done, g) ==
    [done EXCEPT !.lines = g.lines, !.temps = g.temps, !.params = g.params,
                 !.tmp_counter = g.tmp_counter]

generate_block(g, node) ==
    IF g.raised # "" THEN [g |-> g, ref |-> NONE]
    ELSE
    LET counter == g.block_counter + 1
        block_suffix == BlockSuffix(current_block_path(g), counter)
        block_method_name == g.method_selector \o block_suffix
        captured == Captured(g)
        block_lines == BlockHeader(g, node, captured)
        \* the generator set up for the block body
        setup == [g EXCEPT !.block_counter = counter,
                           !.lines = <<>>,
                           !.temps = SetOf(node.temps, g.hashseed),
                           !.params = SetOf(captured \o node.params, g.hashseed),
                           !.tmp_counter = 0,
                           !.block_path_stack = Append(@, BLOCK_ \o Str(counter))]
        inner == [setup EXCEPT !.block_trace = Append(@, [name |-> block_method_name,
                                                          captured |-> captured,
                                                          body_start |-> node.body_start,
                                                          body |-> Frame(setup)])]
        done == GenerateBody(inner, node.body, 1, Len(node.body))
        \* the state restored, the block script stored
        outer == [Restored(done, g) EXCEPT
                              !.block_path_stack = DropLast(@),
                              !.extracted_blocks =
                                  Append(@, <<block_method_name, block_lines \o done.lines>>)]
        b == new_tmp(outer)
        withBindings == [b.g EXCEPT !.lines = @ \o BindingsLines(b.name, captured)
                                                \o <<LBlockDir>>]
        v == new_tmp(withBindings)
        returned == Emit(v.g, ClosureLine(v.name, block_method_name, b.name))
    IN
    IF done.raised # "" THEN [g |-> done, ref |-> NONE]
    ELSE [g |-> [returned EXCEPT !.block_exits =
                     Append(@, [body_start |-> node.body_start,
                                called |-> Frame(g), returned |-> Frame(returned),
                                body |-> Frame(done)])],
          ref |-> v.name]

CodeGenerator(method, g, node, arg) ==
    CASE method = "generate_statement" -> generate_statement(g, node, arg)
      [] method = "generate_expr_final" -> generate_expr_final(g, node)
      [] method = "generate_send_final" -> generate_send_final(g, node)
      [] method = "generate_cascade_final" -> generate_cascade_final(g, node)
      [] method = "generate_expr" -> generate_expr(g, node)
      [] method = "generate_expr_into" -> generate_expr_into(g, node, arg)
      [] method = "generate_send" -> generate_send(g, node)
      [] method = "generate_cascade" -> generate_cascade(g, node)
      [] method = "generate_block" -> generate_block(g, node)

\* generate_method up to the loop over node.body: the attributes reset (not
\* tmp_counter), the source comments and the positional bindings emitted
MethodPrologue(g, node, original_source) ==
    [g EXCEPT !.lines = CommentLines(RStrip(original_source)) \o
                        <<LHash, LBind(SELF, 1)>> \o
                        [i \in 1..Len(node.params) |-> LBind(node.params[i], i + 1)],
              !.temps = SetOf(node.temps, g.hashseed),
              !.params = SetOf(node.params, g.hashseed),
              !.method_selector = Replace(node.selector, ":", "-"),
              !.block_counter = 0,
              !.extracted_blocks = <<>>,
              !.block_path_stack = <<>>]

\* generate_method on the object g: (main_script, extracted_blocks) are the
\* lines and extracted_blocks attributes of the object returned
generate_method(g, node, original_source) ==
    GenerateBody(MethodPrologue(g, node, original_source), node.body, 1, Len(node.body))

----------------------------------------------------------------------------
(* The text of a script: what the f-strings write *)

RefText(ref) == (IF ref.dollar THEN <<"$">> ELSE <<>>) \o ref.name

SendText(line) ==
    <<".", "/", "s", "e", "n", "d", " ">> \o RefText(line.recv) \o <<" ">> \o
    line.selector \o
    (IF line.args = <<>> THEN <<>>
     ELSE <<" ">> \o Join([i \in 1..Len(line.args) |-> RefText(line.args[i])], <<" ">>))

LineText(line) ==
    IF line.op = "comment" THEN <<"#", " ">> \o line.text
    ELSE IF line.op = "hash" THEN <<"#">>
    ELSE IF line.op = "bind" THEN line.target \o <<"=", "$">> \o Str(line.index)
    ELSE IF line.op = "echo" THEN <<"e", "c", "h", "o", " ">> \o RefText(line.ref)
    ELSE IF line.op = "cat"
    THEN <<"c", "a", "t", " ", "$", "s", "e", "l", "f", "/">> \o line.name
    ELSE IF line.op = "send" THEN
        IF line.target = <<>> THEN SendText(line)
        ELSE line.target \o <<"=", "$", "(">> \o SendText(line) \o <<")">>
    ELSE IF line.op = "set" THEN line.target \o <<"=">> \o RefText(line.ref)
    ELSE IF line.op = "catinto"
    THEN line.target \o <<"=", "$", "(", "c", "a", "t", " ", "$", "s", "e", "l", "f", "/">>
         \o line.name \o <<")">>
    ELSE IF line.op = "write"
    THEN <<"e", "c", "h", "o", " ">> \o RefText(line.ref) \o
         <<" ", ">", " ", "$", "s", "e", "l", "f", "/">> \o line.name
    ELSE <<"b", "l", "o", "c", "k", "D", "i", "r", "=", "$", "{", "0", "%", "/", "*", "}">>

\* '\n'.join(lines)
ScriptText(lines) == Join([i \in 1..Len(lines) |-> LineText(lines[i])], <<"\n">>)

\* transpile(source): tokenize, parse_method, generate_method on a new
\* CodeGenerator; failed names the exception that ends it
transpile(source, hashseed) ==
    LET lexed == tokenize(source)
        parsed == parse_method(lexed.tokens)
        g == generate_method(NewCodeGenerator(source, hashseed), parsed.node, source)
    IN
    IF lexed.err THEN [failed |-> "SyntaxError"]
    ELSE IF parsed.err THEN [failed |-> parsed.kind]
    ELSE IF g.raised # "" THEN [failed |-> g.raised]
    ELSE [failed |-> "", main_script |-> g.lines, blocks |-> g.extracted_blocks]

----------------------------------------------------------------------------
(* Inputs.  A method source is a sequence of characters; the families      *)
(* below are the sources the pipeline is run on.                            *)

MaxNodes == 4
MaxSoup == 4
MaxBlocks == 4

Words(ws) == Join(ws, <<" ">>)
Paren(e) == Words(<<<<"(">>, e, <<")">>>>)

\* the method header "m: p | t |": one parameter p and one temporary t
Header == <<"m", ":", " ", "p", " ", "|", " ", "t", " ", "|">>

\* self, a temporary, a parameter, an instance variable, a global, a literal
AtomTexts == {SELF, <<"t">>, <<"p">>, <<"x">>, <<"G">>, <<"3">>}
TargetTexts == {<<"t">>, <<"x">>, <<"G">>}

RECURSIVE ExprsOfSize(_)
\* the expressions of exactly n nodes, operands parenthesized
ExprsOfSize(n) ==
    IF n = 1 THEN AtomTexts
    ELSE LET W(k) == IF k = 1 THEN AtomTexts ELSE {Paren(e) : e \in ExprsOfSize(k)}
             Pairs == {kk \in (1..(n - 2)) \X (1..(n - 2)) : kk[1] + kk[2] = n - 1}
         IN  {Words(<<w, <<"u">>>>) : w \in W(n - 1)}
             \cup {Words(<<v, <<":", "=">>, e>>) : v \in TargetTexts, e \in ExprsOfSize(n - 1)}
             \cup {Words(<<<<"[">>, e, <<"]">>>>) : e \in ExprsOfSize(n - 1)}
             \cup UNION {{Words(<<a, <<"+">>, b>>) : a \in W(kk[1]), b \in W(kk[2])}
                         : kk \in Pairs}
             \cup UNION {{Words(<<a, <<"k", ":">>, b>>) : a \in W(kk[1]), b \in W(kk[2])}
                         : kk \in Pairs}
             \cup UNION {{Words(<<a, <<"u">>, <<";">>, <<"k", ":">>, b>>)
                          : a \in W(kk[1]), b \in W(kk[2])} : kk \in Pairs}
             \cup UNION {{Words(<<a, <<"k", ":">>, b, <<";">>, <<"u">>>>)
                          : a \in W(kk[1]), b \in W(kk[2])} : kk \in Pairs}

\* a statement is an expression, returned or not
StatementsOfSize(n) ==
    ExprsOfSize(n) \cup {Words(<<<<"^">>, e>>) : e \in ExprsOfSize(n)}

\* methods of one statement of at most MaxNodes nodes, or of two statements
\* of at most MaxNodes - 1 nodes together
ExprSources ==
    UNION {{Words(<<Header, st>>) : st \in StatementsOfSize(n)} : n \in 1..MaxNodes}
    \cup UNION {{Words(<<Header, a, <<".">>, b>>)
                 : a \in StatementsOfSize(kk[1]), b \in StatementsOfSize(kk[2])}
                : kk \in {kk \in (1..MaxNodes) \X (1..MaxNodes)
                          : kk[1] + kk[2] <= MaxNodes - 1}}

\* the lexemes a token soup is drawn from, one per token kind the parser
\* distinguishes
Lexemes == {<<"a">>, <<":", "=">>, <<"(">>, <<")">>, <<"+">>, <<"k", ":">>, <<";">>,
            <<".">>, <<"^">>, <<"[">>, <<"]">>, <<"|">>, <<":", "b">>}

RECURSIVE Soups(_)
\* the sequences of exactly n lexemes
Soups(n) ==
    IF n = 0 THEN {<<>>}
    ELSE {<<l>> \o rest : l \in Lexemes, rest \in Soups(n - 1)}

\* the lexemes of sends and cascades, for the longer soups
SendLexemes == {<<"a">>, <<"+">>, <<"k", ":">>, <<";">>}
MaxSendSoup == 5

RECURSIVE SendSoups(_)
SendSoups(n) ==
    IF n = 0 THEN {<<>>}
    ELSE {<<l>> \o rest : l \in SendLexemes, rest \in SendSoups(n - 1)}

\* a unary, a binary and a keyword message pattern
Patterns == {<<<<"m">>>>, <<<<"+">>, <<"p">>>>, <<<<"k", ":">>, <<"p">>, <<"k", ":">>, <<"q">>>>}

\* a message pattern followed by any lexemes, grammatical or not: every soup
\* after the unary pattern, the shorter ones after the others
SoupSources ==
    UNION {{Words(<<<<"m">>>> \o soup) : soup \in Soups(n)} : n \in 0..MaxSoup}
    \cup UNION {{Words(pat \o soup) : pat \in Patterns, soup \in Soups(n)}
                : n \in 0..(MaxSoup - 1)}
    \cup UNION {{Words(<<<<"m">>>> \o soup) : soup \in SendSoups(n)} : n \in 0..MaxSendSoup}

\* the block literal's optional parameters and temporaries: none, a parameter
\* and a temporary of one name, a parameter named as the method's temporary
Decorations == {<<>>,
                <<<<":", "b">>, <<"|">>, <<"|">>, <<"b">>, <<"|">>>>,
                <<<<":", "t">>, <<"|">>>>}

RECURSIVE BlockTexts(_), ForestTexts(_)
\* the block literals that hold exactly n block literals, themselves counted
BlockTexts(n) ==
    {Words(<<<<"[">>>> \o d \o body \o <<<<"]">>>>)
     : d \in Decorations,
       body \in IF n = 1 THEN {<<>>} ELSE {<<f>> : f \in ForestTexts(n - 1)}}

\* the statement sequences of exactly n block literals: sibling literals are
\* successive statements or the operands of one keyword send
ForestTexts(n) ==
    BlockTexts(n) \cup
    UNION {{Words(<<b, sep, f>>)
            : b \in BlockTexts(j), f \in ForestTexts(n - j), sep \in {<<".">>, <<"k", ":">>}}
           : j \in 1..(n - 1)}

BlockSources ==
    UNION {{Words(<<Header, f>>) : f \in ForestTexts(n)} : n \in 1..MaxBlocks}

\* string and symbol literals, and an integer and a variable beside them
StringTexts == {<<"'", "s", "'">>, <<"'", "'">>, <<"'", "i", "'", "'", "s", "'">>}
SymbolTexts == {<<"#", "y">>, <<"#", "k", ":">>, <<"#", "'", "a", " ", "b", "'">>}
PlainTexts == {<<"3">>, <<"t">>}

\* the places of a method body an operand can stand in: a statement (first,
\* last, only), receiver, argument, cascade receiver and argument, assigned
\* and returned value, inside a block and inside a block in a block
Places(e) ==
    LET T == <<"t">>
        W(ws) == Words(<<Header>> \o ws)
    IN {W(<<e>>), W(<<e, <<".">>, T>>), W(<<T, <<".">>, e>>),
        W(<<e, <<"u">>>>), W(<<e, <<"+">>, T>>), W(<<e, <<"k", ":">>, T>>),
        W(<<T, <<"+">>, e>>), W(<<T, <<"k", ":">>, e>>),
        W(<<T, <<"k", ":">>, T, <<"k", ":">>, e>>),
        W(<<e, <<"u">>, <<";">>, <<"u">>>>), W(<<T, <<"u">>, <<";">>, <<"k", ":">>, e>>),
        W(<<T, <<":", "=">>, e>>), W(<<<<"x">>, <<":", "=">>, e>>),
        W(<<T, <<":", "=">>, T, <<":", "=">>, e>>),
        W(<<T, <<":", "=">>, T, <<"k", ":">>, e>>),
        W(<<T, <<":", "=">>, T, <<"u">>, <<";">>, <<"k", ":">>, e>>),
        W(<<<<"^">>, e>>), W(<<<<"^">>, e, <<".">>, T>>), W(<<<<"^">>, T, <<"+">>, e>>),
        W(<<<<"[">>, e, <<"]">>>>), W(<<<<"[">>, <<"[">>, e, <<"]">>, <<"]">>>>),
        W(<<<<"[">>, <<":", "b">>, <<"|">>, <<"^">>, T, <<"k", ":">>, e, <<"]">>>>),
        W(<<T, <<":", "=">>, <<"[">>, e, <<".">>, T, <<"]">>>>),
        W(<<T, <<"k", ":">>, <<"[">>, T, <<":", "=">>, e, <<"]">>>>)}

\* method headers of one, three and five names in scope (self included)
Headers == {<<"m">>, Header,
            <<"k", ":", " ", "p", " ", "k", ":", " ", "q", " ", "|", " ", "t", " ", "r", " ", "|">>}

\* block bodies: empty, a variable, a send then a variable, a return before
\* the last statement, an assignment, a keyword send
LeafBodies == {<<>>, <<<<"t">>>>, <<<<"b">>, <<"u">>, <<".">>, <<"t">>>>,
               <<<<"^">>, <<"t">>, <<".">>, <<"p">>>>, <<<<"t">>, <<":", "=">>, <<"b">>>>,
               <<<<"p">>, <<"k", ":">>, <<"b">>>>}

Block(d, body) == <<<<"[">>>> \o d \o body \o <<<<"]">>>>

\* a block as a statement, in a block, as an argument, between two sends in
\* a block, between two statements of the method
ScopeSources ==
    LET U(v) == <<<<v>>, <<"u">>>>
        Dot == <<<<".">>>>
    IN
    {Words(<<h>> \o Block(d, body)) : h \in Headers, d \in Decorations, body \in LeafBodies}
    \cup {Words(<<h>> \o Block(d1, Block(d2, body)))
          : h \in Headers, d1 \in Decorations, d2 \in Decorations, body \in LeafBodies}
    \cup {Words(<<h, <<"t">>, <<"k", ":">>>> \o Block(d, body))
          : h \in Headers, d \in Decorations, body \in LeafBodies}
    \cup {Words(<<h>> \o Block(d1, U("p") \o Dot \o Block(d2, body) \o Dot \o U("t")))
          : h \in Headers, d1 \in Decorations, d2 \in Decorations, body \in LeafBodies}
    \cup {Words(<<h>> \o U("p") \o Dot \o Block(d, body) \o Dot \o U("t"))
          : h \in Headers, d \in Decorations, body \in LeafBodies}

\* the texts of at most MaxChars characters over digits, the dot, the minus,
\* a letter, another binary character and the space
MaxChars == 5

\* the connections the relay server is run with, and the messages their
\* peers send at most, all together
MaxClients == 3
MaxMessages == 2
Sockets == 1..MaxClients
NumberChars == {"3", "5", ".", "-", "a", "+", " "}

RECURSIVE Texts(_)
Texts(n) ==
    IF n = 0 THEN {<<>>}
    ELSE {<<c>> \o rest : c \in NumberChars, rest \in Texts(n - 1)}

NumberSources == UNION {Texts(n) : n \in 0..MaxChars}

\* headers whose declared names are t and p, or tmp1 and tmp2
FreshHeaders == {Header,
                 <<"m", ":", " ", "t", "m", "p", "2", " ", "|", " ", "t", "m", "p", "1", " ", "|">>,
                 <<"m", " ", "|", " ", "t", "m", "p", "1", " ", "|">>}

\* the names a body uses: a short one, and the first two the generator makes
FreshNames == {<<"t">>, <<"t", "m", "p", "1">>, <<"t", "m", "p", "2">>}

\* bodies that read an instance variable, capture a send, build a block, each
\* beside a use of the name v
FreshBodies(v) ==
    LET X == <<"x">>
        U == <<"u">>
        K == <<"k", ":">>
        Dot == <<".">>
    IN {<<v, <<":", "=">>, <<"3">>, Dot, X, U, Dot, <<"^">>, v>>,
        <<<<"^">>, X, K, v>>,
        <<v, <<":", "=">>, X, U, U>>,
        <<X, U, U, K, v>>,
        <<<<"[">>, <<":">> \o v, <<"|">>, X, U, K, v, <<"]">>>>,
        <<<<"[">>, X, U, <<"]">>, K, v>>,
        <<<<"[">>, v, K, X, <<"]">>>>,
        <<<<"[">>, <<"|">>, v, <<"|">>, v, <<":", "=">>, X, U, U, <<"]">>>>}

FreshSources ==
    {Words(<<h>> \o b) : h \in FreshHeaders, b \in UNION {FreshBodies(v) : v \in FreshNames}}

LiteralSources == UNION {Places(e) : e \in StringTexts \cup SymbolTexts \cup PlainTexts}

----------------------------------------------------------------------------
(* The compilation of one source, step by step as transpile runs it, and   *)
(* the round trip of its statements through node_to_source.                *)

VARIABLES source, hashseed, pc, tokens, parsed, gen, resource, reparsed, written

\* the relay server: the module-level set of connections, and for each
\* connection the position of its handler coroutine, the state of the
\* connection, the iterator of a running "for client in clients", and the
\* messages handed to recipients
VARIABLES clients, handler, websocket, iterator, relayed

server == <<clients, handler, websocket, iterator, relayed>>

vars == <<source, hashseed, pc, tokens, parsed, gen, resource, reparsed, written,
          clients, handler, websocket, iterator, relayed>>

\* the parser does not depend on the hash seed; the generator is run under both
Start(sources, seeds) ==
    /\ source \in sources
    /\ hashseed \in seeds
    /\ pc = "source"
    /\ tokens = <<>>
    /\ parsed = <<>>
    /\ gen = <<>>
    /\ resource = <<>>
    /\ reparsed = <<>>
    /\ written = <<>>
    /\ clients = {}
    /\ handler = [c \in Sockets |-> [at |-> "none", raised |-> "", by |-> "",
                                     open |-> FALSE, undelivered |-> {}]]
    /\ websocket = [c \in Sockets |-> [state |-> "none", sent |-> 0, received |-> 0]]
    /\ iterator = [c \in Sockets |-> [began |-> {}, todo |-> {}, used |-> 0]]
    /\ relayed = {}

InitExpr == Start(ExprSources, {0, 1})
InitRoundTrip == Start(ExprSources, {0})
InitSoup == Start(SoupSources, {0})
InitBlock == Start(BlockSources, {0, 1})
InitLiteral == Start(LiteralSources, {0, 1})
InitScope == Start(ScopeSources, {0, 1})
InitLex == Start(NumberSources, {0})
InitFresh == Start(FreshSources, {0, 1})

\* tokens = tokenize(source)
Tokenize ==
    /\ pc = "source"
    /\ LET r == tokenize(source)
       IN IF r.err
          THEN pc' = "SyntaxError" /\ tokens' = tokens
          ELSE pc' = "tokens" /\ tokens' = r.tokens
    /\ UNCHANGED <<source, hashseed, parsed, gen, resource, reparsed, written>>
    /\ UNCHANGED server

\* ast = Parser(tokens, source).parse_method()
Parse ==
    /\ pc = "tokens"
    /\ parsed' = parse_method(tokens)
    /\ pc' = IF parsed'.err THEN parsed'.kind ELSE "ast"
    /\ UNCHANGED <<source, hashseed, tokens, gen, resource, reparsed, written>>
    /\ UNCHANGED server

\* gen = CodeGenerator(source); gen.generate_method(ast, source)
Generate ==
    /\ pc = "ast"
    /\ gen' = generate_method(NewCodeGenerator(source, hashseed), parsed.node, source)
    /\ pc' = IF gen'.raised # "" THEN gen'.raised ELSE "script"
    /\ UNCHANGED <<source, hashseed, tokens, parsed, resource, reparsed, written>>
    /\ UNCHANGED server

\* node_to_source(stmt) for each statement of the method
Reserialize ==
    /\ pc = "ast"
    /\ resource' = [i \in 1..Len(parsed.node.body) |-> node_to_source(parsed.node.body[i])]
    /\ pc' = "resource"
    /\ UNCHANGED <<source, hashseed, tokens, parsed, gen, reparsed, written>>
    /\ UNCHANGED server

\* Parser(tokenize(text), text).parse_statement() for each re-serialized text
ParseStatement(text) ==
    LET r == tokenize(text)
    IN IF r.err THEN [err |-> TRUE, kind |-> "SyntaxError", pos |-> r.at]
       ELSE parse_statement(r.tokens, 0)

Reparse ==
    /\ pc = "resource"
    /\ reparsed' = [i \in 1..Len(resource) |-> ParseStatement(resource[i])]
    /\ pc' = "reparsed"
    /\ UNCHANGED <<source, hashseed, tokens, parsed, gen, resource, written>>
    /\ UNCHANGED server

\* main, once transpile has returned: with an output directory the primary
\* script is written under the first word of the source and each block script
\* under its name; with none they are printed
OutputDirs == {<<>>, <<"o", "u", "t">>}

OutputFiles(main_script, blocks, output_dir) ==
    LET first_line == Split(Strip(source), "\n")[1]
        stop == IF first_line = <<>> THEN 0
                ELSE Least({k \in 0..Len(first_line)
                            : k = Len(first_line) \/ At(first_line, k) \in Space})
        method_name == IF first_line = <<>> THEN <<"m", "e", "t", "h", "o", "d">>
                       ELSE Replace(Slice(first_line, 0, stop), ":", "-")
        File(name, lines) == [path |-> output_dir \o <<"/">> \o name,
                              text |-> ScriptText(lines) \o <<"\n">>]
    IN <<File(method_name, main_script)>> \o
       [i \in 1..Len(blocks) |-> File(blocks[i][1], blocks[i][2])]

Main ==
    /\ pc = "script"
    /\ \E output_dir \in OutputDirs :
          IF output_dir # <<>>
          THEN /\ written' = OutputFiles(gen.lines, gen.extracted_blocks, output_dir)
               /\ pc' = "written"
          ELSE /\ written' = written
               /\ pc' = "printed"
    /\ UNCHANGED <<source, hashseed, tokens, parsed, gen, resource, reparsed>>
    /\ UNCHANGED server

\* gen.generate_method(ast, source) once more, on the object that has run it
Regenerate ==
    /\ pc = "script"
    /\ gen' = generate_method(gen, parsed.node, source)
    /\ pc' = IF gen'.raised # "" THEN gen'.raised ELSE "regenerated"
    /\ UNCHANGED <<source, hashseed, tokens, parsed, resource, reparsed, written>>
    /\ UNCHANGED server

----------------------------------------------------------------------------
(* The relay server.  Each connection runs the coroutine handler; the      *)
(* event loop runs one coroutine at a time, from one await to the next,    *)
(* in any order.  A handler waits in "async for message in websocket"      *)
(* (at "recv") or in "await client.send(message)" (at "send").             *)

\* "finally: clients.remove(websocket)", reached by the end of the async for,
\* by the except clause or by an exception the except clause does not name.
\* An iterator over the set that is still running no longer finds the element.
Finally(c, exc, by, undelivered) ==
    /\ clients' = clients \ {c}
    /\ handler' = [handler EXCEPT ![c] = [at |-> "done", raised |-> exc, by |-> by,
                                          open |-> websocket[c].state = "open",
                                          undelivered |-> undelivered]]
    /\ iterator' = [h \in Sockets |->
                       IF h = c THEN [began |-> {}, todo |-> {}, used |-> 0]
                       ELSE [iterator[h] EXCEPT !.todo = @ \ {c}]]

\* "for client in clients: if client != websocket: await client.send(message)"
\* run from the iterator state it to the next await or to the end of the loop.
\* The set iterator raises RuntimeError when the size of the set is not the
\* one it began with; the order of a set is not fixed; send raises
\* ConnectionClosed on a connection that has closed.
Broadcast(c, it, message) ==
    IF Cardinality(clients) # it.used
    THEN Finally(c, "RuntimeError", "for", {}) /\ relayed' = relayed
    ELSE IF it.todo \ {c} = {}
    THEN /\ handler' = [handler EXCEPT ![c].at = "recv"]
         /\ iterator' = [iterator EXCEPT ![c] = [began |-> {}, todo |-> {}, used |-> 0]]
         /\ UNCHANGED <<clients, relayed>>
    ELSE \E client \in it.todo \ {c} :
            LET rest == it.todo \ {client}
            IN IF websocket[client].state # "open"
               THEN /\ Finally(c, "ConnectionClosed", "client.send",
                               {d \in rest \ {c} : websocket[d].state = "open"})
                    /\ relayed' = relayed
               ELSE /\ relayed' = relayed \cup {<<c, message, client>>}
                    /\ handler' = [handler EXCEPT ![c].at = "send"]
                    /\ iterator' = [iterator EXCEPT ![c] = [it EXCEPT !.todo = rest]]
                    /\ clients' = clients

\* a connection is accepted: handler(websocket) runs clients.add(websocket)
\* and waits for the first message.  An iterator that is running over the
\* set finds the new element ahead of its position or behind it.
Connect(c) ==
    /\ websocket[c].state = "none"
    /\ websocket' = [websocket EXCEPT ![c].state = "open"]
    /\ clients' = clients \cup {c}
    /\ handler' = [handler EXCEPT ![c].at = "recv"]
    /\ \E ahead \in SUBSET {h \in Sockets : handler[h].at = "send"} :
          iterator' = [h \in Sockets |->
                          IF h \in ahead THEN [iterator[h] EXCEPT !.todo = @ \cup {c}]
                          ELSE iterator[h]]
    /\ UNCHANGED relayed
    /\ UNCHANGED <<source, hashseed, pc, tokens, parsed, gen, resource, reparsed, written>>

\* the peer of a connection sends a message
Arrive(c) ==
    /\ websocket[c].state = "open"
    /\ handler[c].at \in {"recv", "send"}
    /\ Cardinality({m \in Sockets \X (1..MaxMessages) : m[2] <= websocket[m[1]].sent})
           < MaxMessages
    /\ websocket' = [websocket EXCEPT ![c].sent = @ + 1]
    /\ UNCHANGED <<clients, handler, iterator, relayed>>
    /\ UNCHANGED <<source, hashseed, pc, tokens, parsed, gen, resource, reparsed, written>>

\* the peer of a connection closes it, with a closing handshake or without
Disconnect(c) ==
    /\ websocket[c].state = "open"
    /\ handler[c].at \in {"recv", "send"}
    /\ \E how \in {"ConnectionClosedOK", "ConnectionClosedError"} :
          websocket' = [websocket EXCEPT ![c].state = how]
    /\ UNCHANGED <<clients, handler, iterator, relayed>>
    /\ UNCHANGED <<source, hashseed, pc, tokens, parsed, gen, resource, reparsed, written>>

\* "async for message in websocket" resumes: with a message the broadcast
\* begins; on a closed connection the loop ends (ConnectionClosedOK) or
\* raises ConnectionClosedError into the except clause
Receive(c) ==
    /\ handler[c].at = "recv"
    /\ IF websocket[c].received < websocket[c].sent
       THEN /\ websocket' = [websocket EXCEPT ![c].received = @ + 1]
            /\ Broadcast(c, [began |-> clients, todo |-> clients,
                             used |-> Cardinality(clients)],
                         websocket[c].received + 1)
       ELSE /\ websocket[c].state # "open"
            /\ Finally(c, IF websocket[c].state = "ConnectionClosedOK" THEN ""
                          ELSE "ConnectionClosed",
                       "async for", {})
            /\ UNCHANGED <<websocket, relayed>>
    /\ UNCHANGED <<source, hashseed, pc, tokens, parsed, gen, resource, reparsed, written>>

\* "await client.send(message)" resumes and the for loop goes on
Resume(c) ==
    /\ handler[c].at = "send"
    /\ Broadcast(c, iterator[c], websocket[c].received)
    /\ UNCHANGED websocket
    /\ UNCHANGED <<source, hashseed, pc, tokens, parsed, gen, resource, reparsed, written>>

NextRelay ==
    \E c \in Sockets : Connect(c) \/ Arrive(c) \/ Disconnect(c) \/ Receive(c) \/ Resume(c)

InitRelay == Start({<<>>}, {0})

NextParse == Tokenize \/ Parse \/ Reserialize \/ Reparse
NextGen == Tokenize \/ Parse \/ Generate \/ Main
NextLex == Tokenize
NextReuse == Tokenize \/ Parse \/ Generate \/ Regenerate

SpecParse == InitSoup /\ [][NextParse]_vars
SpecRoundTrip == InitRoundTrip /\ [][NextParse]_vars
SpecGen == InitExpr /\ [][NextGen]_vars
SpecBlock == InitBlock /\ [][NextGen]_vars
SpecLiteral == InitLiteral /\ [][NextGen]_vars
SpecScope == InitScope /\ [][NextGen]_vars
SpecReuse == InitScope /\ [][NextReuse]_vars
SpecLex == InitLex /\ [][NextLex]_vars
SpecFresh == InitFresh /\ [][NextGen]_vars
SpecRelay == InitRelay /\ [][NextRelay]_vars

Init == InitExpr
Next == Tokenize \/ Parse \/ Generate \/ Regenerate \/ Main \/ Reserialize \/ Reparse
        \/ NextRelay
Spec == Init /\ [][Next]_vars

----------------------------------------------------------------------------
(* The syntax tree read back: sub-nodes, block literals and their scopes.  *)

\* the nodes held directly by a node, in source order
Children(node) ==
    IF node.node = "AssignNode" THEN <<node.value>>
    ELSE IF node.node = "SendNode" THEN <<node.receiver>> \o node.args
    ELSE IF node.node = "CascadeNode"
    THEN <<node.receiver>> \o
         Flatten([i \in 1..Len(node.messages) |-> node.messages[i][2]])
    ELSE IF node.node = "ReturnNode" THEN <<node.value>>
    ELSE IF node.node \in {"BlockNode", "MethodNode"} THEN node.body
    ELSE <<>>

RECURSIVE BlockScopes(_, _)
\* every block literal under node, by its body_start, with the names in scope at
\* its position when scope is the set of names in scope at node
BlockScopes(node, scope) ==
    LET within == IF node.node \in {"BlockNode", "MethodNode"}
                  THEN scope \cup Range(node.params) \cup Range(node.temps)
                  ELSE scope
        below == UNION {BlockScopes(Children(node)[i], within)
                        : i \in 1..Len(Children(node))}
    IN IF node.node = "BlockNode"
       THEN {[body_start |-> node.body_start, scope |-> scope]} \cup below
       ELSE below

Distinct(list) == \A i, j \in 1..Len(list) : i # j => list[i] # list[j]

----------------------------------------------------------------------------
(* C1: within one generate_method call the names of the extracted block    *)
(* scripts are pairwise distinct, whatever the arrangement of the block    *)
(* literals: siblings in one statement or in different statements, nested  *)
(* blocks, siblings nested inside different outer blocks.                  *)

BlockNames == [i \in 1..Len(gen.extracted_blocks) |-> gen.extracted_blocks[i][1]]

C1_BlockNamesDistinct ==
    pc = "script" =>
        /\ Len(gen.extracted_blocks) = Cardinality(BlockScopes(parsed.node, {}))
        /\ Distinct(BlockNames)

\* two outer blocks in different statements, each holding a nested block
C1_Witness ==
    /\ pc = "script"
    /\ Len(gen.extracted_blocks) = 4
    /\ Len(parsed.node.body) = 2
    /\ \A i \in 1..2 : /\ parsed.node.body[i].node = "BlockNode"
                       /\ Len(parsed.node.body[i].body) = 1
                       /\ parsed.node.body[i].body[1].node = "BlockNode"

----------------------------------------------------------------------------
(* C2: for every block literal, at any depth, the captured list computed   *)
(* by generate_block starts with self, holds no name twice, and its names  *)
(* are exactly self and every temporary and parameter in scope at the      *)
(* block: the method's, and those of every enclosing block.                *)

C2_CapturedIsScope ==
    pc = "script" =>
        /\ Len(gen.block_trace) = Cardinality(BlockScopes(parsed.node, {}))
        /\ \A k \in 1..Len(gen.block_trace) :
              LET captured == gen.block_trace[k].captured
              IN /\ captured[1] = SELF
                 /\ Distinct(captured)
                 /\ \E b \in BlockScopes(parsed.node, {}) :
                       /\ b.body_start = gen.block_trace[k].body_start
                       /\ Range(captured) = {SELF} \cup b.scope

\* a block nested in a block whose parameter and temporary are both named b
C2_Witness ==
    /\ pc = "script"
    /\ \E k \in 1..Len(gen.block_trace) :
          /\ <<"b">> \in Range(gen.block_trace[k].captured)
          /\ Len(gen.block_trace[k].captured) = 4

----------------------------------------------------------------------------
(* C3: re-serializing a parsed statement with node_to_source and parsing   *)
(* the text again yields a syntax tree equal to the original (the offsets  *)
(* body_start and body_end of a block, which belong to the text and not to *)
(* the tree, left aside).                                                  *)

RECURSIVE Unpositioned(_)
\* the node with the text offsets of its block literals cleared
Unpositioned(node) ==
    IF node.node = "AssignNode" THEN AssignNode(node.name, Unpositioned(node.value))
    ELSE IF node.node = "SendNode"
    THEN SendNode(Unpositioned(node.receiver), node.selector,
                  [i \in 1..Len(node.args) |-> Unpositioned(node.args[i])])
    ELSE IF node.node = "CascadeNode"
    THEN CascadeNode(Unpositioned(node.receiver),
                     [i \in 1..Len(node.messages) |->
                        <<node.messages[i][1],
                          [j \in 1..Len(node.messages[i][2]) |->
                             Unpositioned(node.messages[i][2][j])]>>])
    ELSE IF node.node = "ReturnNode" THEN ReturnNode(Unpositioned(node.value))
    ELSE IF node.node = "BlockNode"
    THEN BlockNode(node.params, node.temps,
                   [i \in 1..Len(node.body) |-> Unpositioned(node.body[i])], 0, 0)
    ELSE node

\* statement i of the method came back from the round trip as it was
RoundTrips(i) ==
    /\ ~reparsed[i].err
    /\ Unpositioned(reparsed[i].node) = Unpositioned(parsed.node.body[i])

C3_RoundTrip ==
    pc = "reparsed" => \A i \in 1..Len(reparsed) : RoundTrips(i)

----------------------------------------------------------------------------
(* What a generated script does when run.  A shell state holds the         *)
(* variables, the files written, the dispatcher calls made and the values  *)
(* written to standard output.  Values are texts; the texts in angle       *)
(* brackets stand for what the script cannot know: a positional argument,  *)
(* the content of a file it has not written since the last dispatch, the   *)
(* output of a dispatch.                                                   *)

Angle(text) == <<"<">> \o text \o <<">">>

NewShell == [env |-> <<>>, files |-> <<>>, calls |-> <<>>, out |-> <<>>]

Bound(f, k, v) == [n \in DOMAIN f \cup {k} |-> IF n = k THEN v ELSE f[n]]

\* the text a reference expands to: "$name..." is the value of the variable
\* named by the longest run of identifier characters, then the rest
Expand(sh, ref) ==
    IF ref.dollar
    THEN LET k == ScanWhile(ref.name, 0, IdentChar)
             var == Slice(ref.name, 0, k)
         IN (IF var \in DOMAIN sh.env THEN sh.env[var] ELSE <<>>) \o
            Slice(ref.name, k, Len(ref.name))
    ELSE ref.name

\* the content of the file $self/name
FileContent(sh, name) ==
    LET path == Expand(sh, Dollar(SELF)) \o <<"/">> \o name
    IN IF path \in DOMAIN sh.files THEN sh.files[path]
       ELSE Angle(path \o <<"@">> \o Str(Len(sh.calls)))

\* a variable assignment, or the value on standard output when target is <<>>
Deliver(sh, target, value) ==
    IF target = <<>> THEN [sh EXCEPT !.out = Append(@, value)]
    ELSE [sh EXCEPT !.env = Bound(@, target, value)]

RunLine(sh, line) ==
    IF line.op = "bind" THEN Deliver(sh, line.target, Angle(<<"$">> \o Str(line.index)))
    ELSE IF line.op = "echo" THEN Deliver(sh, <<>>, Expand(sh, line.ref))
    ELSE IF line.op = "cat" THEN Deliver(sh, <<>>, FileContent(sh, line.name))
    ELSE IF line.op = "set" THEN Deliver(sh, line.target, Expand(sh, line.ref))
    ELSE IF line.op = "catinto" THEN Deliver(sh, line.target, FileContent(sh, line.name))
    ELSE IF line.op = "write"
    THEN [sh EXCEPT !.files = Bound(@, Expand(sh, Dollar(SELF)) \o <<"/">> \o line.name,
                                    Expand(sh, line.ref))]
    ELSE IF line.op = "blockdir"
    THEN Deliver(sh, <<"b", "l", "o", "c", "k", "D", "i", "r">>, Angle(<<"d", "i", "r">>))
    ELSE IF line.op = "send"
    THEN LET call == [recv |-> Expand(sh, line.recv), selector |-> line.selector,
                      args |-> [i \in 1..Len(line.args) |-> Expand(sh, line.args[i])]]
             called == [sh EXCEPT !.calls = Append(@, call), !.files = <<>>]
         IN Deliver(called, line.target, Angle(<<"r">> \o Str(Len(called.calls))))
    ELSE sh

RECURSIVE RunFrom(_, _, _)
RunFrom(sh, lines, i) ==
    IF i > Len(lines) THEN sh ELSE RunFrom(RunLine(sh, lines[i]), lines, i + 1)

Run(lines) == RunFrom(NewShell, lines, 1)

----------------------------------------------------------------------------
(* The last statement of a method, generated in both modes after the       *)
(* statements before it.                                                   *)

\* the expression of the last statement
FinalExpr(method) ==
    LET last == method.body[Len(method.body)]
    IN IF last.node = "ReturnNode" THEN last.value ELSE last

\* the generator after generate_method's statements before the last
BeforeFinal(method) ==
    GenerateBody(MethodPrologue(NewCodeGenerator(source, hashseed), method, source),
                 method.body, 1, Len(method.body) - 1)

\* self.generate_expr_final(expr)
TailMode(method) == generate_expr_final(BeforeFinal(method), FinalExpr(method))

\* result = self.generate_expr(expr); self.lines.append(f"echo {self.var_ref(result)}")
ValueMode(method) ==
    LET r == generate_expr(BeforeFinal(method), FinalExpr(method))
    IN Emit(r.g, LEcho(var_ref(r.ref)))

----------------------------------------------------------------------------
(* C4: generating an expression in tail position makes the script output   *)
(* the same value as generating it for its value and echoing the returned  *)
(* reference, with the same dispatcher calls and the same files written.   *)

C4_TailAsValue ==
    pc = "script" /\ parsed.node.body # <<>> =>
        /\ gen.lines = TailMode(parsed.node).lines
        /\ Run(TailMode(parsed.node).lines).out = Run(ValueMode(parsed.node).lines).out
        /\ Run(TailMode(parsed.node).lines).calls = Run(ValueMode(parsed.node).lines).calls
        /\ Run(TailMode(parsed.node).lines).files = Run(ValueMode(parsed.node).lines).files

----------------------------------------------------------------------------
(* C5: a variable name is classified by one priority-ordered rule wherever *)
(* the generator handles it (value reads, tail reads, store-into-target    *)
(* reads, assignment targets): self, then true/false/nil, then a current   *)
(* temporary or parameter, then an uppercase name (global), otherwise an   *)
(* instance variable; only instance variables become a read or a write of  *)
(* the file $self/<name>.                                                  *)

\* the rule's last case: what is left when the first four do not apply
IsInstanceVariable(name, method) ==
    /\ name \notin {SELF, TRUE_, FALSE_, NIL}
    /\ name \notin Range(method.temps) \cup Range(method.params)
    /\ name[1] \notin Upper

\* the lines of the main script and of every extracted block script
AllLines ==
    gen.lines \o Flatten([i \in 1..Len(gen.extracted_blocks) |-> gen.extracted_blocks[i][2]])

\* (the blocks of these methods declare no names of their own, so the names in
\* scope are the method's throughout)
C5_OnlyInstanceVariablesAreFiles ==
    pc = "script" =>
        \A i \in 1..Len(AllLines) :
            AllLines[i].op \in {"cat", "catinto", "write"} =>
                IsInstanceVariable(AllLines[i].name, parsed.node)

----------------------------------------------------------------------------
(* C6: a statement that is an assignment without '^' performs the write    *)
(* (a local is set; for an instance variable the value is written to the   *)
(* file <name> in the receiver's directory) and emits no value on standard *)
(* output, also when it is the last statement of the method.               *)

\* the shell after the script of the method's statements 1..i
After(method, i) ==
    Run(GenerateBody(MethodPrologue(NewCodeGenerator(source, hashseed), method, source),
                     method.body, 1, i).lines)

\* the value the target of the assignment holds in shell sh
Assigned(sh, method, name) ==
    IF name \in Range(method.temps) \cup Range(method.params)
    THEN Expand(sh, Dollar(name))
    ELSE FileContent(sh, name)

\* statement i is an assignment not marked with '^'
PlainAssignment(method, i) == method.body[i].node = "AssignNode"

\* the target holds a value the script itself has put there
Written(sh, method, name) ==
    IF name \in Range(method.temps) \cup Range(method.params)
    THEN name \in DOMAIN sh.env
    ELSE Expand(sh, Dollar(SELF)) \o <<"/">> \o name \in DOMAIN sh.files

C6_AssignmentEmitsNothing ==
    pc = "script" =>
        \A i \in 1..Len(parsed.node.body) :
            PlainAssignment(parsed.node, i) =>
                /\ Written(After(parsed.node, i), parsed.node, parsed.node.body[i].name)
                /\ After(parsed.node, i).out = After(parsed.node, i - 1).out

\* amended: no value is emitted unless the assignment is the last statement,
\* where the write is followed by the assigned value on standard output
C6_AssignmentEmitsOnlyWhenLast ==
    pc = "script" =>
        \A i \in 1..Len(parsed.node.body) :
            PlainAssignment(parsed.node, i) =>
                /\ Written(After(parsed.node, i), parsed.node, parsed.node.body[i].name)
                /\ After(parsed.node, i).out =
                       IF i < Len(parsed.node.body)
                       THEN After(parsed.node, i - 1).out
                       ELSE Append(After(parsed.node, i - 1).out,
                                   Assigned(After(parsed.node, i), parsed.node,
                                            parsed.node.body[i].name))

\* the last statement assigns the parameter to an instance variable
C6_Witness ==
    /\ pc = "script"
    /\ parsed.node.body[Len(parsed.node.body)] =
           AssignNode(<<"x">>, VariableNode(<<"p">>))
    /\ <<"<", "$", "2", ">">> \in Range(Run(gen.lines).out)

----------------------------------------------------------------------------
(* C7: parse_method accepts a token sequence only if it is exactly a       *)
(* message pattern, optional temporaries and dot-separated statements      *)
(* followed directly by end-of-input; any token left over after the        *)
(* statements raises a syntax error and no Method node is returned.        *)

\* a Method node was returned, so the parser stands at the end-of-input token
C7_NoTokenLeftOver ==
    pc = "ast" => current(tokens, parsed.pos).type = "EOF"

----------------------------------------------------------------------------
(* C8: in every Send node the parser builds, in every cascade message and  *)
(* in the method's message pattern, a keyword selector has as many ':' as  *)
(* there are arguments (or formal parameters), a binary selector has one   *)
(* argument and a unary selector none; node_to_source emits one            *)
(* 'keyword: argument' pair per argument, so this holds of the re-parsed   *)
(* text as well.                                                           *)

Colons(selector) == Cardinality({i \in 1..Len(selector) : selector[i] = ":"})

ArityFits(selector, n) ==
    IF Colons(selector) > 0 THEN Colons(selector) = n
    ELSE IF selector[1] \in BinaryChars THEN n = 1
    ELSE n = 0

RECURSIVE SubNodes(_)
\* the node and every node under it
SubNodes(node) ==
    {node} \cup UNION {SubNodes(Children(node)[i]) : i \in 1..Len(Children(node))}

AritiesFit(node) ==
    \A n \in SubNodes(node) :
        /\ n.node = "SendNode" => ArityFits(n.selector, Len(n.args))
        /\ n.node = "CascadeNode" =>
               \A i \in 1..Len(n.messages) :
                   ArityFits(n.messages[i][1], Len(n.messages[i][2]))
        /\ n.node = "MethodNode" => ArityFits(n.selector, Len(n.params))

RECURSIVE SumFrom(_, _)
SumFrom(list, i) == IF i > Len(list) THEN 0 ELSE list[i] + SumFrom(list, i + 1)

RECURSIVE KeywordArgs(_)
\* the number of arguments of keyword messages in the node and under it
KeywordArgs(node) ==
    (IF node.node = "SendNode" /\ Colons(node.selector) > 0 THEN Len(node.args) ELSE 0)
    + (IF node.node = "CascadeNode"
       THEN SumFrom([i \in 1..Len(node.messages) |->
                       IF Colons(node.messages[i][1]) > 0
                       THEN Len(node.messages[i][2]) ELSE 0], 1)
       ELSE 0)
    + SumFrom([i \in 1..Len(Children(node)) |-> KeywordArgs(Children(node)[i])], 1)

\* the number of keyword parts in a text
KeywordTokens(text) ==
    Cardinality({i \in 1..Len(tokenize(text).tokens)
                 : tokenize(text).tokens[i].type = "KEYWORD"})

C8_ColonsCountArguments ==
    /\ pc \in {"ast", "resource", "reparsed"} => AritiesFit(parsed.node)
    /\ pc \in {"resource", "reparsed"} =>
           \A i \in 1..Len(resource) :
               KeywordTokens(resource[i]) = KeywordArgs(parsed.node.body[i])
    /\ pc = "reparsed" =>
           \A i \in 1..Len(reparsed) : ~reparsed[i].err => AritiesFit(reparsed[i].node)

\* a keyword send of two parts, through the round trip
C8_Witness ==
    /\ pc = "reparsed"
    /\ \E n \in SubNodes(parsed.node) :
           n.node = "SendNode" /\ Colons(n.selector) = 2 /\ Len(n.args) = 2
    /\ \A i \in 1..Len(reparsed) : ~reparsed[i].err

----------------------------------------------------------------------------
(* C9: for every send the script evaluates the receiver, then each         *)
(* argument in source order, and only then invokes the dispatcher with     *)
(* receiver, mangled selector and arguments in that order; the value the   *)
(* dispatcher receives for an operand is the value the operand had at its  *)
(* own evaluation step, whatever a later argument assigns.                 *)

IsPrefix(a, b) == Len(a) <= Len(b) /\ SubSeq(b, 1, Len(a)) = a

\* the generator once the receiver of the last statement's send is evaluated
ReceiverStep(method) ==
    generate_expr(BeforeFinal(method), FinalExpr(method).receiver)

\* the generator once the first k arguments are evaluated as well
ArgumentStep(method, k) ==
    GenerateArgs(ReceiverStep(method).g, SubSeq(FinalExpr(method).args, 1, k), <<>>)

\* the value a reference holds when the script has run as far as the lines of g
ValueAt(g, name) == Expand(Run(g.lines), var_ref(name))

C9_OperandsAsEvaluated ==
    pc = "script" /\ parsed.node.body # <<>> /\ FinalExpr(parsed.node).node = "SendNode" =>
        LET send == FinalExpr(parsed.node)
            n == Len(send.args)
            calls == Run(gen.lines).calls
            call == calls[Len(calls)]
        IN /\ IsPrefix(ReceiverStep(parsed.node).g.lines, gen.lines)
           /\ \A k \in 1..n : IsPrefix(ArgumentStep(parsed.node, k - 1).g.lines,
                                       ArgumentStep(parsed.node, k).g.lines)
           /\ gen.lines = Append(ArgumentStep(parsed.node, n).g.lines,
                                 gen.lines[Len(gen.lines)])
           /\ gen.lines[Len(gen.lines)].op = "send"
           /\ call.selector = Replace(send.selector, ":", "-")
           /\ call.recv = ValueAt(ReceiverStep(parsed.node).g, ReceiverStep(parsed.node).ref)
           /\ Len(call.args) = n
           /\ \A k \in 1..n :
                  call.args[k] = ValueAt(ArgumentStep(parsed.node, k).g,
                                         ArgumentStep(parsed.node, k).arg_vars[k])

----------------------------------------------------------------------------
(* C10: for every cascade, in the three generation modes (value-producing, *)
(* tail, store-into-local), the receiver's code is emitted once and before *)
(* any message; the messages are emitted in source order, each against     *)
(* that one receiver reference; every message but the last has its result  *)
(* captured into a fresh local, and the cascade's value is the result of   *)
(* the last message (uncaptured in tail position).                         *)

IsLocal(name, method) == name \in Range(method.temps) \cup Range(method.params)

\* where the last statement holds a cascade that is generated first, and how:
\* the cascade itself (tail), the receiver of a send or the value assigned to a
\* non-local (value-producing), the value assigned to a local (store-into-local)
CascadeMode(method) ==
    LET e == FinalExpr(method) IN
    IF e.node = "CascadeNode" THEN "tail"
    ELSE IF e.node = "SendNode" /\ e.receiver.node = "CascadeNode" /\ e.args = <<>>
    THEN "receiver"
    ELSE IF e.node = "AssignNode" /\ e.value.node = "CascadeNode"
    THEN IF IsLocal(e.name, method) THEN "into" ELSE "stored"
    ELSE "none"

TheCascade(method) ==
    LET e == FinalExpr(method) IN
    IF e.node = "CascadeNode" THEN e
    ELSE IF e.node = "SendNode" THEN e.receiver
    ELSE e.value

\* the lines of the script that follow the cascade's: the send it is the receiver
\* of, the echo of the local assigned, the write and the echo of the value stored
Trailing(mode) ==
    IF mode = "tail" THEN 0 ELSE IF mode = "stored" THEN 2 ELSE 1

\* the message arguments are variables and literals: their code holds no send
ArgsAtomic(cascade) ==
    \A i \in 1..Len(cascade.messages) :
        \A j \in 1..Len(cascade.messages[i][2]) :
            cascade.messages[i][2][j].node \in {"VariableNode", "LiteralNode"}

\* the indices in lines of the dispatcher lines, in order
SendIndices(lines) ==
    LET S == {i \in 1..Len(lines) : lines[i].op = "send"}
    IN [k \in 1..Cardinality(S) |->
           CHOOSE i \in S : Cardinality({j \in S : j < i}) = k - 1]

\* the locals the lines before line i assign
TargetsBefore(lines, i) ==
    {lines[j].target : j \in {j \in 1..(i - 1) : "target" \in DOMAIN lines[j]}}

C10_CascadeShape ==
    pc = "script" /\ parsed.node.body # <<>> /\ CascadeMode(parsed.node) # "none"
       /\ ArgsAtomic(TheCascade(parsed.node)) =>
        LET method == parsed.node
            mode == CascadeMode(method)
            cascade == TheCascade(method)
            m == Len(cascade.messages)
            before == BeforeFinal(method).lines
            recv == generate_expr(BeforeFinal(method), cascade.receiver)
            \* the script up to the last line of the cascade
            upto == SubSeq(gen.lines, 1, Len(gen.lines) - Trailing(mode))
            sends == SendIndices(SubSeq(upto, Len(recv.g.lines) + 1, Len(upto)))
            Message(i) == upto[Len(recv.g.lines) + sends[i]]
            last == gen.lines[Len(gen.lines)]
        IN /\ IsPrefix(before, upto)
           /\ IsPrefix(recv.g.lines, upto)
           /\ \A i \in (Len(recv.g.lines) + 1)..Len(upto) : upto[i].op \in {"send", "catinto"}
           /\ Len(sends) = m
           /\ upto[Len(upto)].op = "send"
           /\ \A i \in 1..m :
                 /\ Message(i).recv = var_ref(recv.ref)
                 /\ Message(i).selector = Replace(cascade.messages[i][1], ":", "-")
                 /\ Len(Message(i).args) = Len(cascade.messages[i][2])
           /\ \A i \in 1..(m - 1) :
                 /\ Message(i).target # <<>>
                 /\ ~IsLocal(Message(i).target, method)
                 /\ Message(i).target \notin
                        TargetsBefore(upto, Len(recv.g.lines) + sends[i])
           /\ mode = "tail" => Message(m).target = <<>>
           /\ mode = "into" => /\ Message(m).target = FinalExpr(method).name
                               /\ last = LEcho(Dollar(FinalExpr(method).name))
           /\ mode \in {"receiver", "stored"} =>
                 /\ Message(m).target # <<>>
                 /\ ~IsLocal(Message(m).target, method)
                 /\ Message(m).target \notin TargetsBefore(upto, Len(upto))
           /\ mode = "receiver" => last.op = "send" /\ last.recv = Dollar(Message(m).target)
           /\ mode = "stored" =>
                 /\ gen.lines[Len(gen.lines) - 1] =
                        LWrite(Dollar(Message(m).target), FinalExpr(method).name)
                 /\ last = LEcho(Dollar(Message(m).target))

\* a cascade on an instance variable, stored into a local
C10_Witness ==
    /\ pc = "script"
    /\ CascadeMode(parsed.node) = "into"
    /\ TheCascade(parsed.node).receiver = VariableNode(<<"x">>)
    /\ Len(TheCascade(parsed.node).messages) = 2
    /\ Len(gen.lines) > Len(BeforeFinal(parsed.node).lines) + 3

----------------------------------------------------------------------------
(* C11: a method whose body holds a string or symbol literal anywhere (a   *)
(* statement, receiver, argument, assigned or returned value, inside a     *)
(* block at any depth) fails to compile with a NotImplementedError whose   *)
(* message names the kind of a literal of the body; transpile returns no   *)
(* script and main writes no file.                                         *)

RECURSIVE LiteralKinds(_)
\* the kinds of the string and symbol literals under node
LiteralKinds(node) ==
    (IF node.node = "LiteralNode" /\ node.type \in {"string", "symbol"}
     THEN {node.type} ELSE {})
    \cup UNION {LiteralKinds(Children(node)[i]) : i \in 1..Len(Children(node))}

NamesKind(message, kind) ==
    \/ message = kind \o " literals not yet supported"
    \/ kind = "string" /\ message = "String literals not yet supported"
    \/ kind = "symbol" /\ message = "Symbol literals not yet supported"

Generated == pc \in {"script", "written", "printed", "NotImplementedError"}

C11_LiteralUnsupported ==
    (Generated /\ LiteralKinds(parsed.node) # {}) =>
        /\ pc = "NotImplementedError"
        /\ \E kind \in LiteralKinds(parsed.node) : NamesKind(gen.message, kind)
        /\ transpile(source, hashseed) = [failed |-> "NotImplementedError"]
        /\ written = <<>>

\* a symbol literal assigned inside a block that is a keyword argument
C11_Witness ==
    /\ pc = "NotImplementedError"
    /\ LiteralKinds(parsed.node) = {"symbol"}
    /\ parsed.node.body[1].node = "SendNode"
    /\ Len(parsed.node.body[1].args) = 1
    /\ parsed.node.body[1].args[1].node = "BlockNode"
    /\ gen.message = "symbol literals not yet supported"

----------------------------------------------------------------------------
(* C12: every extracted block script binds, from the positional arguments  *)
(* 1, 2, ... in this order, the captured names (self first) and then the   *)
(* block's own parameters; its body is generated with exactly those names  *)
(* as parameters and exactly the block's temporaries as temporaries, and   *)
(* the last statement of the body, and no other that is not a return, is   *)
(* generated in tail position.                                             *)

RECURSIVE Blocks(_)
\* the block literals under node
Blocks(node) ==
    (IF node.node = "BlockNode" THEN {node} ELSE {})
    \cup UNION {Blocks(Children(node)[i]) : i \in 1..Len(Children(node))}

BlockAt(body_start) ==
    CHOOSE b \in Blocks(parsed.node) : b.body_start = body_start

\* the script stored under a name
ScriptOf(name) ==
    LET k == CHOOSE k \in 1..Len(gen.extracted_blocks) : gen.extracted_blocks[k][1] = name
    IN gen.extracted_blocks[k][2]

IsBind(line) == line.op = "bind"

\* a line that writes to the result channel of the script
IsResult(line) == line.op \in {"echo", "cat"} \/ (line.op = "send" /\ line.target = <<>>)

\* the lines the body of a block script starts with: those after the bindings
BodyLines(script) ==
    LET heads == {i \in 1..Len(script) : script[i].op \in {"bind", "hash"}}
        last == CHOOSE i \in heads : \A j \in heads : j <= i
    IN SubSeq(script, last + 1, Len(script))

C12_BlockScriptScope ==
    pc = "script" =>
        \A k \in 1..Len(gen.block_trace) :
            LET tr == gen.block_trace[k]
                node == BlockAt(tr.body_start)
                script == ScriptOf(tr.name)
                names == tr.captured \o node.params
                body == BodyLines(script)
                early == {i \in 1..(Len(node.body) - 1) : node.body[i].node = "ReturnNode"}
            IN /\ tr.captured[1] = SELF
               /\ SelectSeq(script, IsBind) = [i \in 1..Len(names) |-> LBind(names[i], i)]
               /\ Range(tr.body.params) = Range(names)
               /\ Range(tr.body.temps) = Range(node.temps)
               /\ node.body # <<>> =>
                     /\ IsResult(script[Len(script)])
                     /\ Len(SelectSeq(body, IsResult)) = 1 + Cardinality(early)

\* a nested block with a parameter and a temporary of one name whose body
\* sends before its last statement
C12_Witness ==
    /\ pc = "script"
    /\ \E k \in 1..Len(gen.block_trace) :
          LET tr == gen.block_trace[k]
              node == BlockAt(tr.body_start)
          IN /\ Len(tr.captured) >= 4
             /\ node.params = <<<<"b">>>>
             /\ node.temps = <<<<"b">>>>
             /\ Len(node.body) = 2
             /\ node.body[1].node = "SendNode"

----------------------------------------------------------------------------
(* C13: every value reference written into a script carries '$' exactly    *)
(* when it names a shell local (self, a temporary, a parameter, a tmpN,    *)
(* the block directory) and none when it is a tagged literal, a reserved   *)
(* token or an uppercase global, in every emitting position.               *)

\* the value references of a line
Refs(line) ==
    IF line.op \in {"echo", "set", "write"} THEN {line.ref}
    ELSE IF line.op = "send" THEN {line.recv} \cup Range(line.args)
    ELSE {}

\* every name a method or one of its blocks declares
Declared(method) ==
    Range(method.params) \cup Range(method.temps)
    \cup UNION {Range(b.params) \cup Range(b.temps) : b \in Blocks(method)}

IsFresh(name) ==
    /\ StartsWith(name, TMP)
    /\ Len(name) > Len(TMP)
    /\ \A i \in (Len(TMP) + 1)..Len(name) : name[i] \in Digit

IsShellLocal(name, method) ==
    \/ name = SELF
    \/ name \in Declared(method)
    \/ IsFresh(name)
    \/ StartsWith(name, <<"b", "l", "o", "c", "k", "D", "i", "r", "/">>)

IsVerbatim(name) ==
    \/ StartsWith(name, INT_) \/ StartsWith(name, FLOAT_)
    \/ name \in {TRUE_, FALSE_, NIL}
    \/ (name # <<>> /\ name[1] \in Upper)

C13_DollarOnLocalsOnly ==
    pc = "script" =>
        \A i \in 1..Len(AllLines) : \A ref \in Refs(AllLines[i]) :
            /\ ref.dollar <=> IsShellLocal(ref.name, parsed.node)
            /\ IsVerbatim(ref.name) => ~ref.dollar

----------------------------------------------------------------------------
(* C14: when generate_block returns normally the enclosing script's line   *)
(* buffer is the earlier lines followed only by the bindings-container and *)
(* closure lines, its temporaries and parameters are those in force before *)
(* the call, and its counter is the earlier value plus the two fresh names *)
(* of the use site, however many the block body and the blocks nested in   *)
(* it consumed; the body starts from an empty line buffer and counter 0.   *)

TraceOf(body_start) ==
    CHOOSE tr \in Range(gen.block_trace) : tr.body_start = body_start

\* a line of the closure construction at a use site
IsConstruction(line) ==
    \/ line.op = "blockdir"
    \/ /\ line.op = "send"
       /\ \/ line.recv.name \in {<<"A", "r", "r", "a", "y">>,
                                  <<"B", "l", "o", "c", "k", "C", "l", "o", "s", "u", "r", "e">>}
          \/ line.target = <<"_">>

C14_BlockLeavesFrame ==
    pc = "script" =>
        /\ Len(gen.block_exits) = Len(gen.block_trace)
        /\ \A k \in 1..Len(gen.block_exits) :
              LET e == gen.block_exits[k]
                  tr == TraceOf(e.body_start)
                  n == Len(tr.captured)
                  added == SubSeq(e.returned.lines, Len(e.called.lines) + 1,
                                  Len(e.returned.lines))
              IN /\ IsPrefix(e.called.lines, e.returned.lines)
                 /\ Len(added) = (IF n <= 4 THEN 1 ELSE 1 + n) + 2
                 /\ \A i \in 1..Len(added) : IsConstruction(added[i])
                 /\ e.returned.temps = e.called.temps
                 /\ e.returned.params = e.called.params
                 /\ e.returned.tmp_counter = e.called.tmp_counter + 2
                 /\ tr.body.lines = <<>>
                 /\ tr.body.tmp_counter = 0

\* a block called with one fresh name already used, whose body used a fresh
\* name of its own, inside a block whose body used three
C14_Witness ==
    /\ pc = "script"
    /\ \E j, k \in 1..Len(gen.block_exits) :
          LET inside == gen.block_exits[j]
              around == gen.block_exits[k]
          IN /\ inside.called.tmp_counter = 1
             /\ inside.body.tmp_counter = 1
             /\ inside.called.temps # inside.body.temps
             /\ around.body.tmp_counter = 3
             /\ around.called.lines # <<>>

----------------------------------------------------------------------------
(* C15: the operand of a '^' return statement is generated in tail         *)
(* position, its value streamed to the result channel with no capture into *)
(* a fresh local followed by a re-echo, wherever the return statement      *)
(* stands in a method or block body.                                       *)

\* the lines end with the echo of a fresh local one of them has captured
CapturedEcho(lines) ==
    /\ lines # <<>>
    /\ LET last == lines[Len(lines)]
       IN /\ last.op = "echo"
          /\ IsFresh(last.ref.name)
          /\ \E i \in 1..(Len(lines) - 1) :
                /\ lines[i].op \in {"send", "catinto"}
                /\ lines[i].target = last.ref.name

Returns == SelectSeq(gen.statement_trace, LAMBDA st : st.node.node = "ReturnNode")

Streams(node) == node.node \in {"LiteralNode", "VariableNode", "SendNode", "CascadeNode"}

\* the operands whose value generation ends in a capture into a fresh local
Captures(node, method) ==
    \/ node.node \in {"SendNode", "CascadeNode", "BlockNode"}
    \/ node.node = "VariableNode" /\ IsInstanceVariable(node.name, method)

----------------------------------------------------------------------------
(* C16: at every block use site, for every number n >= 1 of captured       *)
(* names, the emitted code builds a bindings container of exactly the n    *)
(* captured values in the order of the leading formal parameters of the    *)
(* block script: one construction call with n operands for n <= 4, and for *)
(* n > 4 a container of size n filled at the indices 1..n in order; the    *)
(* closure is built from the sibling script <method-selector><block-path>  *)
(* and that container.                                                     *)

ArrayRef == Plain(<<"A", "r", "r", "a", "y">>)
ClosureRef == Plain(<<"B", "l", "o", "c", "k", "C", "l", "o", "s", "u", "r", "e">>)

\* the lines generate_block appended at a use site
UseSite(e) ==
    SubSeq(e.returned.lines, Len(e.called.lines) + 1, Len(e.returned.lines))

C16_BindingsHoldCaptured ==
    pc = "script" =>
        \A k \in 1..Len(gen.block_exits) :
            LET e == gen.block_exits[k]
                tr == TraceOf(e.body_start)
                captured == tr.captured
                n == Len(captured)
                site == UseSite(e)
                container == site[1].target
                binds == SelectSeq(ScriptOf(tr.name), IsBind)
                values == [i \in 1..n |-> Dollar(captured[i])]
            IN /\ n >= 1
               /\ IsFresh(container)
               /\ \A i \in 1..n : binds[i] = LBind(captured[i], i)
               /\ n <= 4 =>
                     /\ Len(site) = 3
                     /\ site[1] = LSend(container, ArrayRef,
                                        Flatten([i \in 1..n |-> <<"w", "i", "t", "h", "-">>]),
                                        values)
               /\ n > 4 =>
                     /\ Len(site) = n + 3
                     /\ site[1] = LSend(container, ArrayRef, <<"n", "e", "w", "-">>,
                                        <<Plain(INT_ \o Str(n))>>)
                     /\ \A i \in 1..n :
                           site[1 + i] = LSend(<<"_">>, Dollar(container),
                                               <<"a", "t", "-", "p", "u", "t", "-">>,
                                               <<Plain(INT_ \o Str(i)), values[i]>>)
               /\ site[Len(site) - 1] = LBlockDir
               /\ LET closure == site[Len(site)]
                  IN /\ closure.op = "send" /\ IsFresh(closure.target)
                     /\ closure.target # container
                     /\ closure.recv = ClosureRef
                     /\ closure.args =
                            <<Dollar(<<"b", "l", "o", "c", "k", "D", "i", "r", "/">> \o tr.name),
                              Dollar(container)>>
                     /\ StartsWith(tr.name, gen.method_selector \o BLOCK_)

CapturedCounts == {Len(gen.block_trace[k].captured) : k \in 1..Len(gen.block_trace)}

\* a use site of five captured names and, in that block, one of six (use
\* sites of one to four are reached from the shorter method headers)
C16_Witness ==
    /\ pc = "script"
    /\ CapturedCounts = {5, 6}

----------------------------------------------------------------------------
(* C17: the scripts produced for a method depend only on its source: the   *)
(* primary script and the block scripts (fresh-local names, block names)   *)
(* are those of a first compilation, whatever was compiled before, also on *)
(* a CodeGenerator object that has already run generate_method, and        *)
(* whatever the interpreter's string-hash seed.                            *)

C17_ScriptsDependOnSourceOnly ==
    pc \in {"script", "regenerated"} =>
        /\ gen.lines = transpile(source, 0).main_script
        /\ gen.extracted_blocks = transpile(source, 0).blocks

----------------------------------------------------------------------------
(* C18: parsing a token sequence of the lexer ends with a Method node or   *)
(* with a SyntaxError: the parser position never passes the end-of-input   *)
(* token, a statement parsed at any position consumes at least one token   *)
(* or raises, and a block or parenthesis the parser has entered and that   *)
(* is still open at the end of input raises a SyntaxError.                 *)

EndOfInput == Len(tokens) - 1

\* the nesting depth after the tokens pos..k when the token at pos opens
\* depth 1; 0 once the opener is closed
RECURSIVE Depth(_, _)
Depth(pos, k) ==
    IF k < pos THEN 0
    ELSE LET before == IF k = pos THEN 0 ELSE Depth(pos, k - 1)
             type == current(tokens, k).type
         IN IF k > pos /\ before = 0 THEN 0
            ELSE IF type \in {"LPAREN", "LBRACKET"} THEN before + 1
            ELSE IF type \in {"RPAREN", "RBRACKET"} THEN before - 1
            ELSE before

\* the positions of the openers no later token closes
OpenAtEnd ==
    {pos \in 0..EndOfInput : /\ current(tokens, pos).type \in {"LPAREN", "LBRACKET"}
                             /\ Depth(pos, EndOfInput) > 0}

Ends(r, pos) ==
    /\ r.pos <= EndOfInput
    /\ IF r.err THEN r.kind = "SyntaxError" ELSE r.pos > pos

C18_ParsingTerminates ==
    parsed # <<>> =>
        /\ IF parsed.err THEN parsed.kind = "SyntaxError"
           ELSE parsed.node.node = "MethodNode"
        /\ parsed.pos <= EndOfInput
        /\ \A pos \in 0..EndOfInput : Ends(Parser("parse_statement", tokens, pos), pos)
        /\ \A pos \in OpenAtEnd :
              LET r == Parser("parse_primary", tokens, pos)
              IN r.err /\ r.kind = "SyntaxError" /\ r.pos <= EndOfInput

\* the end of input reached inside a block inside a parenthesis
C18_Witness ==
    /\ parsed # <<>>
    /\ parsed.err
    /\ parsed.pos = EndOfInput
    /\ Cardinality(OpenAtEnd) = 2
    /\ \E pos \in OpenAtEnd : current(tokens, pos).type = "LPAREN"
    /\ \E pos \in OpenAtEnd : current(tokens, pos).type = "LBRACKET"

----------------------------------------------------------------------------
(* C19: a '.' is part of a number only when it directly follows the        *)
(* integer digits of a numeric literal and is directly followed by a digit *)
(* (one FLOAT token); every other '.' is a DOT token, and integer digits   *)
(* before it form an INT token.  A '-' is part of a numeric token only     *)
(* when the character directly after it is a digit; otherwise it starts or *)
(* continues a BINARY token.                                               *)

\* the token whose text covers the index i of the source
Covers(tok, i) == tok.type # "EOF" /\ tok.pos <= i /\ i < tok.pos + Len(tok.value)

TokenAt(i) == CHOOSE k \in 1..Len(tokens) : Covers(tokens[k], i)

DigitAfter(i) == i + 1 < Len(source) /\ At(source, i + 1) \in Digit

\* a numeric token starts at index start and the characters from its first
\* digit up to the one before index d are all digits
IntegerDigits(start, d) ==
    LET first == IF At(source, start) = "-" THEN start + 1 ELSE start
    IN /\ first < d
       /\ \E k \in 1..Len(tokens) : /\ tokens[k].type \in {"INT", "FLOAT"}
                                    /\ tokens[k].pos = start
       /\ \A j \in first..(d - 1) : At(source, j) \in Digit

C19_DotAndMinus ==
    pc = "tokens" =>
        \A i \in 0..(Len(source) - 1) :
            /\ \E k \in 1..Len(tokens) : Covers(tokens[k], i) \/ At(source, i) = " "
            /\ At(source, i) = "." =>
                  LET tok == tokens[TokenAt(i)]
                      starts == {start \in 0..(i - 1) : IntegerDigits(start, i)}
                  IN IF starts # {} /\ DigitAfter(i)
                     THEN tok.type = "FLOAT" /\ tok.pos \in starts
                     ELSE /\ tok = Token("DOT", <<".">>, i)
                          /\ \A start \in starts :
                                tokens[TokenAt(start)] = Token("INT", Slice(source, start, i), start)
            /\ At(source, i) = "-" =>
                  LET tok == tokens[TokenAt(i)]
                  IN /\ tok.type \in {"INT", "FLOAT"} => (tok.pos = i /\ DigitAfter(i))
                     /\ ~DigitAfter(i) => tok.type = "BINARY"
                     /\ tok.type \in {"INT", "FLOAT", "BINARY"}

\* a float directly followed by a dot and an integer, as in "3.5.3"
C19_Witness ==
    /\ pc = "tokens"
    /\ Len(source) = 5
    /\ Len(tokens) = 4
    /\ tokens[1].type = "FLOAT"
    /\ tokens[2].type = "DOT"
    /\ tokens[3].type = "INT"

----------------------------------------------------------------------------
(* C20: one execution of a generated script, primary or block, writes at   *)
(* most one value to its result channel: once the value of a '^' return    *)
(* statement is emitted, no later statement of the body emits a value,     *)
(* runs a send or writes an instance variable.                             *)

\* the lines of the primary script once the statements 1..i are generated
LinesUpTo(i) ==
    GenerateBody(MethodPrologue(NewCodeGenerator(source, hashseed), parsed.node, source),
                 parsed.node.body, 1, i).lines

IsWrite(line) == line.op = "write"

C20_OneResultThenNothing ==
    pc = "script" =>
        /\ Len(Run(gen.lines).out) <= 1
        /\ \A k \in 1..Len(gen.extracted_blocks) :
              Len(Run(gen.extracted_blocks[k][2]).out) <= 1
        /\ \A i \in 1..(Len(parsed.node.body) - 1) :
              parsed.node.body[i].node = "ReturnNode" =>
                  /\ Run(gen.lines).out = Run(LinesUpTo(i)).out
                  /\ Run(gen.lines).calls = Run(LinesUpTo(i)).calls
                  /\ SelectSeq(gen.lines, IsWrite) = SelectSeq(LinesUpTo(i), IsWrite)

----------------------------------------------------------------------------
(* C21: within one generated script, every fresh local name the generator  *)
(* introduces (tmp1, tmp2, ...) differs from every other fresh name of     *)
(* that script and from every name bound in the script's scope (self, the  *)
(* declared temporaries, the parameters, the captured names).              *)

\* the names bound in the script the k-th fresh name was made for
BoundNames(k) ==
    {SELF} \cup Range(gen.fresh_trace[k].temps) \cup Range(gen.fresh_trace[k].params)

\* the k-th and the j-th fresh name are for one script
SameScript(k, j) == gen.fresh_trace[k].script = gen.fresh_trace[j].script

\* the fresh names of each script differ from one another
FreshNamesApart ==
    \A k, j \in 1..Len(gen.fresh_trace) :
        (k # j /\ SameScript(k, j)) => gen.fresh_trace[k].name # gen.fresh_trace[j].name

C21_FreshNamesUnbound ==
    pc = "script" =>
        /\ FreshNamesApart
        /\ \A k \in 1..Len(gen.fresh_trace) : gen.fresh_trace[k].name \notin BoundNames(k)

----------------------------------------------------------------------------
(* C22: in the relay server the shared client set is never changed, by     *)
(* another connection's handler registering or deregistering, while a      *)
(* handler is suspended at "await client.send" in the middle of iterating  *)
(* that set for a broadcast.                                               *)

C22_ClientsStableDuringSend ==
    \A h \in Sockets : handler[h].at = "send" => iterator[h].began = clients

----------------------------------------------------------------------------
(* C23: a recipient whose connection has closed during a broadcast does    *)
(* not end the sending client's session: a client leaves the set only when *)
(* its own connection has ended, with its message delivered to the         *)
(* remaining recipients and every message it sent relayed.                 *)

C23_ClosedRecipientSparesSender ==
    \A c \in Sockets :
        (handler[c].at = "done" /\ handler[c].raised # "RuntimeError") =>
            /\ ~handler[c].open
            /\ handler[c].undelivered = {}
            /\ websocket[c].received = websocket[c].sent

====
